---- MODULE Spec2Model ----
(***************************************************************************)
(* Transcriber-Pipeline: the transcription scheduler                       *)
(* (src/transcribe_pipeline/audio_utils/transcriber.py) working on the     *)
(* manifest the planner (audio_utils/segmenter.py) wrote.                  *)
(*                                                                         *)
(* The coordinator thread runs transcribe_manifest; one worker per pending *)
(* chunk runs work(c) on a ThreadPoolExecutor.  Every assignment work      *)
(* makes to its chunk dict is a step (the first one together with the      *)
(* return of the call that produced the value), and json.dumps reads a     *)
(* chunk dict in three steps: the coordinator serialises the manifest      *)
(* while workers of other chunks are still writing their records.          *)
(* write_text is two steps: the truncating open, then the write.           *)
(*                                                                         *)
(* The planner (plan_and_segment) is modelled from the probe result to the  *)
(* manifest it writes, one step per loop iteration and per ffmpeg call.     *)
(* Times are fixed-point numbers, TimeScale units to the second; a float    *)
(* division rounds to the nearest unit, as Python's rounds to the nearest   *)
(* double; sums and differences are exact.                                 *)
(*                                                                         *)
(* The stitcher's _dedup_join is modelled as one step on texts that are     *)
(* sequences of characters, with difflib's matching blocks computed as     *)
(* SequenceMatcher computes them.                                          *)
(*                                                                         *)
(* Optional values: None is <<>>, a present value v is <<v>>.  A key that  *)
(* a dict does not have is <<>> as well (only "error" can be missing).     *)
(***************************************************************************)
EXTENDS Integers, Sequences, FiniteSets, TLC

\* ------------------------------------------------------------------ bounds
NumChunks == 2
MaxParallel == 2
\* largest max_retries of the one-worker configurations (RetrySpec)
MaxRetriesSeq == 3
\* longest text given to _dedup_join, and its window and min_match arguments
\* (500 and 30 by default), scaled down together: a text can be longer than
\* the window, and a window can hold a run of min_match characters, a gap and
\* one more run
MaxTextLen == 6
JoinWindow == 5
MinMatch == 2
\* most chunks of a manifest given to stitch_outputs
MaxMerge == 3
\* most merged chunks given to write_side_outputs
MaxCueChunks == 2

\* --------------------------------------------------------------- constants
None == <<>>
Some(v) == <<v>>

TRANSIENT_ERRORS == {"rate_limit_exceeded", "server_error", "temporarily_unavailable"}

\* Exception messages of the transcription collaborator, as token lists.
ErrorMessages == {<<"Error:", "Rate_Limit_Exceeded">>, <<"Invalid", "audio", "format">>}

\* config.model.backoff_base_ms: the default, and the ends of the range
\* ModelConfig.validate accepts.
DefaultBackoff == 800

\* config.model.max_retries of the test configuration: one retry, so that a
\* chunk can both be retried and run out of retries.
TestMaxRetries == 1
BackoffValues == {100, 5000}

\* What openai_provider.transcribe_audio can do: return a mapping with a
\* text, return something line 54 finds no text in (a mapping whose text is
\* null or missing, or a value that is not a mapping), or raise.
Responses ==
    {[kind |-> "text", msg |-> <<"hello">>],
     [kind |-> "no_text", msg |-> None]}
    \cup {[kind |-> "raise", msg |-> m] : m \in ErrorMessages}

\* time_provider.time() differences, int(... * 1000)
Latencies == {250}

Chunks == 1..NumChunks

VARIABLES
    disk,               \* manifest file: the chunk records of its JSON, <<>> when the file is empty
    credential,         \* whether OPENAI_API_KEY is set for the current invocation
    max_retries,        \* config.model.max_retries
    backoff_base_ms,    \* config.model.backoff_base_ms
    parallel_requests,  \* config.model.parallel_requests
    pc,                 \* coordinator position in transcribe_manifest
    saveLine,           \* which call of _save_manifest is running: 134 or 137
    manifest_content,   \* what read_text returned (line 108)
    manifest,           \* the in-memory manifest["chunks"]
    pending,            \* indices of the records submitted to the pool
    handled,            \* futures as_completed has yielded
    wpc,                \* per chunk: position of its work(c) call
    attempt,            \* per chunk: loop variable of _retrying_transcribe
    local,              \* per chunk: the latency or the exception work still has to record
    resps,              \* per chunk: responses of the collaborator this run, in order
    sleeps,             \* per chunk: delays passed to time_provider.sleep, in ms
    pos,                \* json.dumps: index of the chunk dict being encoded
    fld,                \* json.dumps: items of that dict read so far
    cur,                \* json.dumps: the items read so far
    content,            \* json.dumps: records encoded so far, then the file content
    writes,             \* completed write_text calls of this invocation
    meta,               \* plan_and_segment: the probe result (duration, bit_rate)
    chunking,           \* config.chunking
    ppc,                \* position in plan_and_segment
    window,             \* plan_and_segment: window
    t,                  \* plan_and_segment: t of the cut loop
    cut_points,         \* plan_and_segment: cut_points
    chunks,             \* plan_and_segment: chunks
    ffmpeg_calls,       \* the _run(cmd) calls issued, in order
    prev,               \* _dedup_join: prev
    nxt,                \* _dedup_join: nxt
    match,              \* _dedup_join: match, the opcode chosen
    deduped,            \* _dedup_join: the value returned
    jpc,                \* position in _dedup_join
    loaded,             \* stitch_outputs: chunks, as json.loads returned them
    si,                 \* stitch_outputs: the loop variable i
    merged_text,        \* stitch_outputs: merged_text
    merged_chunks,      \* stitch_outputs: merged_chunks
    full_text,          \* the first value stitch_outputs returned
    spc,                \* position in stitch_outputs
    outputs,            \* config.outputs: the write_txt, write_json, write_srt, write_vtt flags
    files,              \* the transcript files of the output directory
    srt_parts,          \* _write_srt: parts, of every merged chunk in order
    mpc,                \* position in main
    order               \* chunk indices in the order as_completed yielded them

\* the scheduler's process: everything of it but the manifest file
run == <<credential, max_retries, backoff_base_ms, parallel_requests, pc,
         saveLine, manifest_content, manifest, pending, handled, wpc, attempt,
         local, resps, sleeps, pos, fld, cur, content, writes>>

scheduler == <<disk, run>>

planner == <<meta, chunking, ppc, window, t, cut_points, chunks, ffmpeg_calls>>

\* the locals of _dedup_join, and those of stitch_outputs
join == <<prev, nxt, match, deduped, jpc>>
merge == <<loaded, si, merged_text, merged_chunks, full_text, spc>>

stitcher == <<join, merge>>

writer == <<outputs, files, srt_parts>>

cli == <<mpc, order>>

vars == <<scheduler, planner, stitcher, writer, cli>>

config == <<max_retries, backoff_base_ms, parallel_requests>>
encoder == <<pos, fld, cur, content>>
workers == <<wpc, attempt, local, resps, sleeps>>

\* ------------------------------------------------------------------ helpers
\* segmenter.py: the record plan_and_segment appends for each chunk.
PlannedRecord ==
    [status |-> "pending", text |-> None, latency_ms |-> None, retries |-> 0,
     error |-> None]

NoLocal == [latency_ms |-> None, exc |-> None]
NoCur == [status |-> "", text |-> None, had_error |-> FALSE]

Terminal == {"done", "error"}
Running == {"loop", "dumps", "trunc", "write", "raising"}
Busy == {"call", "sleep", "set_latency", "set_done", "set_error"}

\* any(t in msg for t in TRANSIENT_ERRORS), msg = str(e).lower()
Lower(tok) ==
    CASE tok = "Rate_Limit_Exceeded" -> "rate_limit_exceeded"
      [] tok = "Error:" -> "error:"
      [] tok = "Invalid" -> "invalid"
      [] OTHER -> tok
IsTransient(msg) == \E k \in 1..Len(msg) : Lower(msg[k]) \in TRANSIENT_ERRORS

RECURSIVE Pow2(_)
Pow2(n) == IF n = 0 THEN 1 ELSE 2 * Pow2(n - 1)

\* (a backoff that grows linearly instead of doubling)
DelayLinear(a, backoff) == (a + 1) * backoff

\* (the same backoff before every retry)
DelayConstant(a, backoff) == backoff

\* delay = (2 ** attempt) * backoff / 1000.0 seconds, kept here in milliseconds
Delay(a, backoff) == Pow2(a) * backoff

\* (a retry test that forgets the transient markers)
ShouldRetryAnyError(a, maxr, msg) == a < maxr

\* attempt < max_retries and any(t in msg for t in TRANSIENT_ERRORS)
ShouldRetry(a, maxr, msg) == a < maxr /\ IsTransient(msg)

\* (a worker that also records the retries it needed)
WithLatencyAndRetries(c, latency, a) == [c EXCEPT !.latency_ms = latency, !.retries = a]

\* work line 120: c["latency_ms"] = latency
WithLatency(c, latency, a) == [c EXCEPT !.latency_ms = latency]

\* (a filter that also takes failed records / that takes every record)
IsPendingNotDone(rec) == rec.status # "done"
IsPendingAll(rec) == TRUE

\* c.get("status") == "pending"
IsPending(rec) == rec.status = "pending"

\* (a lookup that tolerates a missing variable, as get does)
GetRequiredOptional(cred) == TRUE

\* env_provider.get_required("OPENAI_API_KEY") returns (does not raise)
GetRequired(cred) == cred

\* (a work item bound to one shared record instead of its own)
GivenShared(i) == 1

\* ex.submit(work, c) for c in pending: the record work item i is called with
Given(i) == i

\* transcription calls issued for chunk i in this invocation
Calls(i) == Len(resps[i]) + (IF wpc[i] = "call" THEN 1 ELSE 0)

\* ------------------------------------------------------------------- Init
InitWith(file, retries, backoffs, parallel) ==
    /\ disk = file
    /\ credential = TRUE
    /\ max_retries \in retries
    /\ backoff_base_ms \in backoffs
    /\ parallel_requests \in parallel
    /\ pc = "idle"
    /\ saveLine = 134
    /\ manifest_content = <<>>
    /\ manifest = <<>>
    /\ pending = {}
    /\ handled = {}
    /\ wpc = [i \in Chunks |-> "none"]
    /\ attempt = [i \in Chunks |-> 0]
    /\ local = [i \in Chunks |-> NoLocal]
    /\ resps = [i \in Chunks |-> <<>>]
    /\ sleeps = [i \in Chunks |-> <<>>]
    /\ pos = 0
    /\ fld = 0
    /\ cur = NoCur
    /\ content = <<>>
    /\ writes = 0

\* plan_and_segment is not running, its locals do not exist.
PlannerOff ==
    /\ meta = [duration |-> 0, bit_rate |-> 0]
    /\ chunking = [target_chunk_mb |-> 16, max_chunk_secs |-> 900, overlap_secs |-> 0]
    /\ ppc = "off"
    /\ window = 0
    /\ t = 0
    /\ cut_points = <<>>
    /\ chunks = <<>>
    /\ ffmpeg_calls = <<>>

\* _dedup_join is not running.
NoMatch == [tag |-> "", i1 |-> 0, i2 |-> 0, j1 |-> 0, j2 |-> 0]
JoinOff ==
    /\ prev = <<>>
    /\ nxt = <<>>
    /\ match = NoMatch
    /\ deduped = <<>>
    /\ jpc = "off"

\* stitch_outputs is not running.
MergeOff ==
    /\ loaded = <<>>
    /\ si = 0
    /\ merged_text = <<>>
    /\ merged_chunks = <<>>
    /\ full_text = <<>>
    /\ spc = "off"

StitcherOff == JoinOff /\ MergeOff

\* write_side_outputs has not run: no transcript file exists.
NoFiles == [txt |-> None, json |-> None, srt |-> None, vtt |-> None]
\* OutputConfig: the defaults
DefaultOutputs ==
    [write_txt |-> TRUE, write_json |-> TRUE, write_srt |-> TRUE, write_vtt |-> FALSE]
WriterOff ==
    /\ outputs = DefaultOutputs
    /\ files = NoFiles
    /\ srt_parts = <<>>

\* The stage is not run from main.
CliOff ==
    /\ mpc = "off"
    /\ order = <<>>

\* The planner has written the manifest; the scheduler has not run yet.
Init ==
    /\ InitWith([i \in Chunks |-> PlannedRecord], {TestMaxRetries},
                {DefaultBackoff}, {MaxParallel})
    /\ PlannerOff
    /\ StitcherOff
    /\ WriterOff
    /\ CliOff

\* A manifest whose first two chunks are still to do and whose other chunks
\* an earlier run has saved as done; one worker, larger retry budgets.
DoneRecord ==
    [status |-> "done", text |-> <<"hello">>, latency_ms |-> Some(250),
     retries |-> 0, error |-> None]

\* ModelConfig.validate: parallel_requests < 1 or > 10 raises ValueError, so
\* the configuration never reaches the scheduler.
ValidParallel(p) == ~(p < 1 \/ p > 10)
ParallelCandidates == {0, 1, 11}

InitRetry ==
    /\ InitWith([i \in Chunks |-> IF i <= 2 THEN PlannedRecord ELSE DoneRecord],
                0..MaxRetriesSeq, BackoffValues,
                {p \in ParallelCandidates : ValidParallel(p)})
    /\ PlannerOff
    /\ StitcherOff
    /\ WriterOff
    /\ CliOff

\* The memory of a process that is not inside transcribe_manifest.
NoRun ==
    /\ manifest_content' = <<>>
    /\ manifest' = <<>>
    /\ pending' = {}
    /\ handled' = {}
    /\ wpc' = [i \in Chunks |-> "none"]
    /\ attempt' = [i \in Chunks |-> 0]
    /\ local' = [i \in Chunks |-> NoLocal]
    /\ resps' = [i \in Chunks |-> <<>>]
    /\ sleeps' = [i \in Chunks |-> <<>>]
    /\ pos' = 0
    /\ fld' = 0
    /\ cur' = NoCur
    /\ content' = <<>>
    /\ writes' = 0
    /\ saveLine' = 134

\* ------------------------------------------------------------ coordinator
\* transcribe_manifest lines 101-130: get_required, read_text, json.loads,
\* the pending list, submit of every pending record.
Invoke(cred) ==
    /\ pc \in {"idle", "returned", "raised"}
    /\ credential' = cred
    /\ UNCHANGED <<disk, config>>
    /\ IF ~GetRequired(cred) \/ disk = <<>>
       THEN \* RuntimeError of get_required, or JSONDecodeError of json.loads
            /\ pc' = "raised"
            /\ NoRun
       ELSE /\ pc' = "loop"
            /\ saveLine' = 134
            /\ manifest_content' = disk
            /\ manifest' = disk
            /\ pending' = {i \in Chunks : IsPending(disk[i])}
            /\ handled' = {}
            /\ wpc' = [i \in Chunks |->
                         IF IsPending(disk[i]) THEN "queued" ELSE "none"]
            /\ attempt' = [i \in Chunks |-> 0]
            /\ local' = [i \in Chunks |-> NoLocal]
            /\ resps' = [i \in Chunks |-> <<>>]
            /\ sleeps' = [i \in Chunks |-> <<>>]
            /\ pos' = 0
            /\ fld' = 0
            /\ cur' = NoCur
            /\ content' = <<>>
            /\ writes' = 0
    /\ UNCHANGED <<planner, stitcher, writer, cli>>

\* _save_manifest line 28 begins: json.dumps starts with the first chunk.
BeginDumps ==
    /\ pc' = "dumps"
    /\ pos' = 1
    /\ fld' = 0
    /\ cur' = NoCur
    /\ content' = <<>>

\* line 131-134: as_completed yields a finished future, fut.result(), then
\* _save_manifest is entered.
Completed(i) ==
    /\ pc = "loop"
    /\ i \in pending \ handled
    /\ wpc[i] = "finished"
    /\ handled' = handled \cup {i}
    /\ saveLine' = 134
    /\ BeginDumps
    /\ UNCHANGED <<disk, credential, config, manifest_content, manifest, pending,
                   workers, writes>>

HandleCompletion(i) ==
    /\ Completed(i)
    /\ UNCHANGED <<planner, stitcher, writer, cli>>

\* the same step in a run of main, where the order of the completions is
\* kept for the record
ObservedCompletion(i) ==
    /\ Completed(i)
    /\ order' = Append(order, i)
    /\ UNCHANGED <<planner, stitcher, writer, mpc>>

\* line 131 exhausted, the with block is left (every future is done), line 137.
ExitLoop ==
    /\ pc = "loop"
    /\ handled = pending
    /\ saveLine' = 137
    /\ BeginDumps
    /\ UNCHANGED <<disk, credential, config, manifest_content, manifest, pending,
                   handled, workers, writes>>
    /\ UNCHANGED <<planner, stitcher, writer, cli>>

\* (a save that serialises the manifest as it was loaded)
SavedManifestStale == manifest_content

\* _save_manifest(fs_provider, manifest_path, manifest): the object passed
\* is the one work items write to.
SavedManifest == manifest

\* json.dumps (line 28) reads the next items of chunk dict pos, in dict
\* order: ..., status | text | latency_ms, retries[, error].  The dict
\* iterator raises RuntimeError("dictionary changed size during iteration")
\* at its next step when a key was added since it was created: only work's
\* line 124 adds one.
DumpsStep ==
    /\ pc = "dumps"
    /\ LET rec == SavedManifest[pos]
           has_error == rec.error # None
       IN IF fld > 0 /\ has_error # cur.had_error
          THEN \* the exception leaves line 134; the with block waits for the pool
               /\ pc' = "raising"
               /\ UNCHANGED encoder
          ELSE CASE fld = 0 ->
                      /\ cur' = [cur EXCEPT !.status = rec.status,
                                            !.had_error = has_error]
                      /\ fld' = 1
                      /\ UNCHANGED <<pc, pos, content>>
                 [] fld = 1 ->
                      /\ cur' = [cur EXCEPT !.text = rec.text]
                      /\ fld' = 2
                      /\ UNCHANGED <<pc, pos, content>>
                 [] OTHER ->
                      /\ content' = Append(content,
                             [rec EXCEPT !.status = cur.status, !.text = cur.text])
                      /\ cur' = NoCur
                      /\ fld' = 0
                      /\ IF pos = Len(SavedManifest)
                         THEN pc' = "trunc" /\ pos' = 0
                         ELSE pc' = "dumps" /\ pos' = pos + 1
    /\ UNCHANGED <<disk, credential, config, saveLine, manifest_content, manifest,
                   pending, handled, workers, writes>>
    /\ UNCHANGED <<planner, stitcher, writer, cli>>

\* write_text, Path.write_text: open(path, "w") truncates the file.
Truncate ==
    /\ pc = "trunc"
    /\ disk' = <<>>
    /\ pc' = "write"
    /\ UNCHANGED <<credential, config, saveLine, manifest_content, manifest,
                   pending, handled, workers, encoder, writes>>
    /\ UNCHANGED <<planner, stitcher, writer, cli>>

\* write_text: the content is written and the file closed; line 134 returns
\* to the as_completed loop, line 137 returns from transcribe_manifest.
WriteContent ==
    /\ pc = "write"
    /\ disk' = content
    /\ writes' = writes + 1
    /\ pc' = IF saveLine = 134 THEN "loop" ELSE "returned"
    /\ UNCHANGED <<credential, config, saveLine, manifest_content, manifest,
                   pending, handled, workers, encoder>>
    /\ UNCHANGED <<planner, stitcher, writer, cli>>

\* ThreadPoolExecutor.__exit__ = shutdown(wait=True): the exception of line
\* 134 leaves transcribe_manifest once every submitted work item has run.
Raise ==
    /\ pc = "raising"
    /\ \A i \in Chunks : wpc[i] \in {"none", "finished"}
    /\ pc' = "raised"
    /\ UNCHANGED <<disk, credential, config, saveLine, manifest_content, manifest,
                   pending, handled, workers, encoder, writes>>
    /\ UNCHANGED <<planner, stitcher, writer, cli>>

\* ---------------------------------------------------------------- workers
\* (a pool that takes a thread in a backoff sleep for an idle one)
ActiveCallsOnly == {i \in Chunks : wpc[i] \in Busy \ {"sleep"}}

\* work items a pool thread is running
Active == {i \in Chunks : wpc[i] \in Busy}
Queued == {i \in Chunks : wpc[i] = "queued"}

\* A pool thread takes the oldest work item (submission order = list order)
\* and runs work(c) up to the first transcribe_audio call, attempt = 0.
WorkerStart(i) ==
    /\ pc \in Running
    /\ i \in Queued
    /\ \A j \in Queued : i <= j
    /\ Cardinality(Active) < parallel_requests
    /\ wpc' = [wpc EXCEPT ![i] = "call"]
    /\ attempt' = [attempt EXCEPT ![i] = 0]
    /\ UNCHANGED <<disk, credential, config, pc, saveLine, manifest_content,
                   manifest, pending, handled, local, resps, sleeps, encoder, writes>>
    /\ UNCHANGED <<planner, stitcher, writer, cli>>

\* transcribe_audio returns r after lat milliseconds: _transcribe_one lines
\* 54-56, the except clause of _retrying_transcribe (lines 73-79), and the
\* first statement work runs with the outcome (line 119 or line 123).
Respond(i, r, lat) ==
    /\ pc \in Running
    /\ wpc[i] = "call"
    /\ resps' = [resps EXCEPT ![i] = Append(@, r)]
    /\ IF r.kind # "raise"
       THEN \* text = data.get("text") if isinstance(data, dict) else None
            \* c["text"] = text
            /\ local' = [local EXCEPT ![i] = [latency_ms |-> Some(lat), exc |-> None]]
            /\ manifest' = [manifest EXCEPT ![Given(i)].text =
                                IF r.kind = "text" THEN r.msg ELSE None]
            /\ wpc' = [wpc EXCEPT ![i] = "set_latency"]
            /\ UNCHANGED sleeps
       ELSE IF ShouldRetry(attempt[i], max_retries, r.msg)
            THEN /\ sleeps' = [sleeps EXCEPT ![i] =
                       Append(@, Delay(attempt[i], backoff_base_ms))]
                 /\ wpc' = [wpc EXCEPT ![i] = "sleep"]
                 /\ UNCHANGED <<local, manifest>>
            ELSE \* raise; c["status"] = "error"
                 /\ local' = [local EXCEPT ![i] = [latency_ms |-> None, exc |-> Some(r.msg)]]
                 /\ manifest' = [manifest EXCEPT ![Given(i)].status = "error"]
                 /\ wpc' = [wpc EXCEPT ![i] = "set_error"]
                 /\ UNCHANGED sleeps
    /\ UNCHANGED <<disk, credential, config, pc, saveLine, manifest_content,
                   pending, handled, attempt, encoder, writes>>
    /\ UNCHANGED <<planner, stitcher, writer, cli>>

\* time_provider.sleep returns, continue: the next attempt's call is issued.
WakeUp(i) ==
    /\ pc \in Running
    /\ wpc[i] = "sleep"
    /\ attempt' = [attempt EXCEPT ![i] = @ + 1]
    /\ wpc' = [wpc EXCEPT ![i] = "call"]
    /\ UNCHANGED <<disk, credential, config, pc, saveLine, manifest_content,
                   manifest, pending, handled, local, resps, sleeps, encoder, writes>>
    /\ UNCHANGED <<planner, stitcher, writer, cli>>

\* work line 120: c["latency_ms"] = latency
SetLatency(i) ==
    /\ pc \in Running
    /\ wpc[i] = "set_latency"
    /\ manifest' = [manifest EXCEPT ![Given(i)] =
                        WithLatency(@, local[i].latency_ms, attempt[i])]
    /\ wpc' = [wpc EXCEPT ![i] = "set_done"]
    /\ UNCHANGED <<disk, credential, config, pc, saveLine, manifest_content,
                   pending, handled, attempt, local, resps, sleeps, encoder, writes>>
    /\ UNCHANGED <<planner, stitcher, writer, cli>>

\* work line 121: c["status"] = "done", then finally: return c
SetDone(i) ==
    /\ pc \in Running
    /\ wpc[i] = "set_done"
    /\ manifest' = [manifest EXCEPT ![Given(i)].status = "done"]
    /\ wpc' = [wpc EXCEPT ![i] = "finished"]
    /\ UNCHANGED <<disk, credential, config, pc, saveLine, manifest_content,
                   pending, handled, attempt, local, resps, sleeps, encoder, writes>>
    /\ UNCHANGED <<planner, stitcher, writer, cli>>

\* work line 124: c["error"] = str(e) adds the key, then finally: return c
SetError(i) ==
    /\ pc \in Running
    /\ wpc[i] = "set_error"
    /\ manifest' = [manifest EXCEPT ![Given(i)].error = local[i].exc]
    /\ wpc' = [wpc EXCEPT ![i] = "finished"]
    /\ UNCHANGED <<disk, credential, config, pc, saveLine, manifest_content,
                   pending, handled, attempt, local, resps, sleeps, encoder, writes>>
    /\ UNCHANGED <<planner, stitcher, writer, cli>>

\* The process is terminated inside transcribe_manifest: its memory is gone,
\* the file stays as the last write_text step left it.
Crash ==
    /\ pc \in Running
    /\ pc' = "idle"
    /\ NoRun
    /\ UNCHANGED <<disk, credential, config>>
    /\ UNCHANGED <<planner, stitcher, writer, cli>>

\* ------------------------------------------------------------------ specs
Worker(i) ==
    \/ WorkerStart(i)
    \/ \E r \in Responses, lat \in Latencies : Respond(i, r, lat)
    \/ WakeUp(i)
    \/ SetLatency(i)
    \/ SetDone(i)
    \/ SetError(i)

Coordinator ==
    \/ \E i \in Chunks : HandleCompletion(i)
    \/ ExitLoop
    \/ DumpsStep
    \/ Truncate
    \/ WriteContent
    \/ Raise

RunStep == Coordinator \/ \E i \in Chunks : Worker(i)

Next ==
    \/ \E cred \in BOOLEAN : Invoke(cred)
    \/ RunStep
    \/ Crash

Spec == Init /\ [][Next]_vars

RetrySpec == InitRetry /\ [][Next]_vars

\* No termination of the process; the pool threads and the coordinator are
\* scheduled (the OS runs every runnable thread), the collaborator answers
\* every call and every sleep ends.  The caller may or may not invoke again.
NextRun ==
    \/ \E cred \in BOOLEAN : Invoke(cred)
    \/ RunStep

FairSpec == Init /\ [][NextRun]_vars /\ WF_vars(RunStep)

\* ---------------------------------------------------------------- planner
\* Fixed-point time: units to the second.
TimeScale == 8

Max(a, b) == IF a >= b THEN a ELSE b
Min(a, b) == IF a <= b THEN a ELSE b

\* a / b on floats, a >= 0 and b > 0: the representable value nearest to the
\* quotient, ties to even.
RoundDiv(a, b) ==
    LET q == a \div b
        r == a % b
    IN IF 2 * r < b THEN q
       ELSE IF 2 * r > b THEN q + 1
       ELSE IF q % 2 = 0 THEN q ELSE q + 1

\* probe_audio: float(fmt.get("duration") or astream.get("duration") or 0.0)
ProbeDuration(field) == IF field = None \/ field[1] = 0 THEN 0 ELSE field[1]

\* ChunkingConfig.validate returns (does not raise)
ChunkingValid(c) ==
    /\ ~(c.max_file_mb < 1 \/ c.max_file_mb > 100)
    /\ ~(c.target_chunk_mb < 1 \/ c.target_chunk_mb > c.max_file_mb)
    /\ ~(c.max_chunk_secs < 60 \/ c.max_chunk_secs > 3600)
    /\ ~(c.overlap_secs < 0 \/ c.overlap_secs > 30)

\* ChunkingConfig values around the limits of validate, and the defaults.
ChunkingCandidates ==
    [max_file_mb : {25}, target_chunk_mb : {0, 1, 16, 26},
     max_chunk_secs : {59, 60, 900, 3601}, overlap_secs : {-1, 0, 3, 30, 31}]

\* meta["bit_rate"], bits per second
BitRates == {1, 999, 128000, 192000}

\* The duration field of the probed file, in time units: missing, not
\* positive, and lengths around one, two and more windows.
DurationSecs == {-1, 0, 1, 60, 61, 63, 64, 120, 121, 125, 126, 181, 250, 901, 1334, 2001, 4000}
DurationFields ==
    {None} \cup {Some(d * TimeScale) : d \in DurationSecs} \cup {Some(500), Some(501)}

\* bitrate_kbps = max(1, int(meta["bit_rate"]) // 1000)
BitrateKbps(bit_rate) == Max(1, bit_rate \div 1000)

\* (a window without the 60 second floor)
SafeChunkWindowNoFloor(bit_rate, c) ==
    Min(RoundDiv(c.target_chunk_mb * 8000 * TimeScale, BitrateKbps(bit_rate)),
        c.max_chunk_secs * TimeScale)

\* _safe_chunk_window: max(60, min(target_chunk_mb * 8000 / bitrate_kbps, t_max))
SafeChunkWindow(bit_rate, c) ==
    Max(60 * TimeScale,
        Min(RoundDiv(c.target_chunk_mb * 8000 * TimeScale, BitrateKbps(bit_rate)),
            c.max_chunk_secs * TimeScale))

\* float(config.chunking.overlap_secs)
Overlap == chunking.overlap_secs * TimeScale

\* (a tail overlap recorded for every chunk that is not the last)
OverlapTailByIndex(idx, end, duration, n) == IF idx < n - 1 THEN Overlap ELSE 0

\* "overlap_tail": overlap if end < duration else 0.0
OverlapTail(idx, end, duration, n) == IF end < duration THEN Overlap ELSE 0

\* (an end that is not clipped to the duration)
CutEndUnclipped(tt, w, duration) ==
    tt + w + (IF tt + w < duration THEN Overlap ELSE 0)

\* end = min(duration, t + window + (overlap if t + window < duration else 0.0))
CutEnd(tt, w, duration) ==
    Min(duration, tt + w + (IF tt + w < duration THEN Overlap ELSE 0))

\* start = max(0.0, t - (overlap if t > 0 else 0.0))
CutStart(tt) == Max(0, tt - (IF tt > 0 THEN Overlap ELSE 0))

\* (a guard that lets a non-positive duration through)
DurationUnknownNever(duration) == FALSE

\* if duration <= 0.0: raise ValueError
DurationUnknown(duration) == duration <= 0

\* The probe has run on the input file and the configuration is validated;
\* there is no manifest file yet.
PlanInit ==
    /\ InitWith(<<>>, {TestMaxRetries}, {DefaultBackoff}, {MaxParallel})
    /\ \E field \in DurationFields, b \in BitRates :
          meta = [duration |-> ProbeDuration(field), bit_rate |-> b]
    /\ chunking \in {c \in ChunkingCandidates : ChunkingValid(c)}
    /\ ppc = "idle"
    /\ window = 0
    /\ t = 0
    /\ cut_points = <<>>
    /\ chunks = <<>>
    /\ ffmpeg_calls = <<>>
    /\ StitcherOff
    /\ WriterOff
    /\ CliOff

\* plan_and_segment lines 52-61
PlanStart ==
    /\ ppc = "idle"
    /\ IF DurationUnknown(meta.duration)
       THEN /\ ppc' = "raised"
            /\ UNCHANGED window
       ELSE /\ ppc' = "cut"
            /\ window' = SafeChunkWindow(meta.bit_rate, chunking)
    /\ t' = 0
    /\ cut_points' = <<>>
    /\ UNCHANGED <<meta, chunking, chunks, ffmpeg_calls, scheduler, stitcher, writer, cli>>

\* lines 62-66: one test of the while condition, and the body when it holds
CutStep ==
    /\ ppc = "cut"
    /\ IF t < meta.duration
       THEN /\ cut_points' = Append(cut_points,
                                     <<CutStart(t), CutEnd(t, window, meta.duration)>>)
            /\ t' = t + window
            /\ UNCHANGED ppc
       ELSE /\ ppc' = "segment"
            /\ UNCHANGED <<t, cut_points>>
    /\ UNCHANGED <<meta, chunking, window, chunks, ffmpeg_calls, scheduler, stitcher, writer, cli>>

\* Return codes of the ffmpeg process.
ReturnCodes == {0, 1}

\* (a _run that does not look at the return code)
RunRaisesNever(returncode) == FALSE

\* _run: if proc.returncode != 0: raise RuntimeError
RunRaises(returncode) == returncode # 0

\* lines 72-95: _run(cmd) for the next cut point; its RuntimeError leaves
\* plan_and_segment, otherwise the record is appended.
Extract(returncode) ==
    /\ ppc = "segment"
    /\ Len(chunks) < Len(cut_points)
    /\ LET idx == Len(chunks)
           start == cut_points[idx + 1][1]
           end == cut_points[idx + 1][2]
       IN /\ ffmpeg_calls' = Append(ffmpeg_calls,
                                     [idx |-> idx, returncode |-> returncode])
          /\ IF ~RunRaises(returncode)
             THEN /\ chunks' = Append(chunks,
                        [index |-> idx, t_start |-> start, t_end |-> end,
                         overlap_head |-> IF idx > 0 THEN Overlap ELSE 0,
                         overlap_tail |-> OverlapTail(idx, end, meta.duration,
                                                      Len(cut_points)),
                         status |-> "pending", text |-> None,
                         latency_ms |-> None, retries |-> 0, error |-> None])
                  /\ UNCHANGED ppc
             ELSE /\ ppc' = "raised"
                  /\ UNCHANGED chunks
    /\ UNCHANGED <<meta, chunking, window, t, cut_points, scheduler, stitcher, writer, cli>>

\* lines 97-107: the manifest is written once every chunk is extracted
WriteManifest ==
    /\ ppc = "segment"
    /\ Len(chunks) = Len(cut_points)
    /\ disk' = chunks
    /\ ppc' = "done"
    /\ UNCHANGED <<meta, chunking, window, t, cut_points, chunks, ffmpeg_calls, run,
                   stitcher, writer, cli>>

PlanNext ==
    \/ PlanStart
    \/ CutStep
    \/ \E returncode \in ReturnCodes : Extract(returncode)
    \/ WriteManifest

PlanSpec == PlanInit /\ [][PlanNext]_vars

\* --------------------------------------------------------------- stitcher
\* Characters: letters, the space, the newline, the carriage return and the
\* zero-width space U+200B.
Whitespace == {" ", "\n", "\r"}
ZeroWidth == "zwsp"

\* every text of at most n characters of the alphabet
TextsOver(alphabet, n) == UNION {[1..k -> alphabet] : k \in 0..n}

\* An accumulated text and the text of the next chunk: words of two letters,
\* and for the next chunk also the short texts with blanks, line breaks and
\* zero-width spaces.
PrevTexts == TextsOver({"a", "b"}, MaxTextLen)
NextTexts == TextsOver({"a", "b"}, MaxTextLen)
             \cup TextsOver({"a", " ", "\n", ZeroWidth}, MinMatch + 1)

\* str.strip()
RECURSIVE LStrip(_)
LStrip(s) ==
    IF s # <<>> /\ Head(s) \in Whitespace THEN LStrip(Tail(s)) ELSE s
RECURSIVE RStrip(_)
RStrip(s) ==
    IF s # <<>> /\ s[Len(s)] \in Whitespace
    THEN RStrip(SubSeq(s, 1, Len(s) - 1)) ELSE s
Strip(s) == LStrip(RStrip(s))

\* str.splitlines() of a text whose only line break is "\n"
RECURSIVE SplitLines(_)
SplitLines(s) ==
    IF s = <<>> THEN <<>>
    ELSE LET brk == {k \in 1..Len(s) : s[k] = "\n"}
             k == IF brk = {} THEN Len(s) + 1
                  ELSE CHOOSE x \in brk : \A y \in brk : x <= y
         IN <<SubSeq(s, 1, k - 1)>> \o SplitLines(SubSeq(s, k + 1, Len(s)))

\* "\n".join(lines)
RECURSIVE JoinLines(_)
JoinLines(lines) ==
    IF lines = <<>> THEN <<>>
    ELSE IF Len(lines) = 1 THEN lines[1]
    ELSE lines[1] \o <<"\n">> \o JoinLines(Tail(lines))

\* _normalize_text
NormalizeText(s) ==
    IF s = <<>> THEN <<>>
    ELSE LET r == [k \in 1..Len(s) |-> IF s[k] = "\r" THEN "\n" ELSE s[k]]
             z == SelectSeq(r, LAMBDA c : c # ZeroWidth)
             lines == SplitLines(z)
         IN JoinLines([k \in 1..Len(lines) |-> Strip(lines[k])])

\* s[-w:] and s[:w]
LastChars(s, w) == SubSeq(s, Max(1, Len(s) - w + 1), Len(s))
FirstChars(s, w) == SubSeq(s, 1, Min(w, Len(s)))

\* SequenceMatcher.find_longest_match(alo, ahi, blo, bhi) without junk: the
\* longest block a[i:i+k] == b[j:j+k] in the ranges, of those the one that
\* starts earliest in a, of those the one that starts earliest in b
\* (0-based i and j); k = 0 when no character matches.
FindLongestMatch(a, b, alo, ahi, blo, bhi) ==
    LET cand == {m \in (alo..(ahi - 1)) \X (blo..(bhi - 1)) \X (1..(ahi - alo)) :
                   /\ m[1] + m[3] <= ahi
                   /\ m[2] + m[3] <= bhi
                   /\ \A d \in 0..(m[3] - 1) : a[m[1] + d + 1] = b[m[2] + d + 1]}
    IN IF cand = {} THEN <<alo, blo, 0>>
       ELSE CHOOSE m \in cand :
              \A o \in cand :
                 \/ m[3] > o[3]
                 \/ m[3] = o[3] /\ m[1] < o[1]
                 \/ m[3] = o[3] /\ m[1] = o[1] /\ m[2] <= o[2]

\* SequenceMatcher.get_matching_blocks, without the closing dummy block: the
\* longest match, then the same to its left and to its right, in order.
\* (No two of these blocks are adjacent, so none is merged.)
RECURSIVE MatchingBlocks(_, _, _, _, _, _)
MatchingBlocks(a, b, alo, ahi, blo, bhi) ==
    LET m == FindLongestMatch(a, b, alo, ahi, blo, bhi)
    IN IF m[3] = 0 THEN <<>>
       ELSE MatchingBlocks(a, b, alo, m[1], blo, m[2])
            \o <<m>>
            \o MatchingBlocks(a, b, m[1] + m[3], ahi, m[2] + m[3], bhi)

\* The "equal" opcodes of get_opcodes, (tag, i1, i2, j1, j2), in order.
EqualOpcodes(a, b) ==
    LET blocks == MatchingBlocks(a, b, 0, Len(a), 0, Len(b))
    IN [n \in 1..Len(blocks) |->
          [tag |-> "equal", i1 |-> blocks[n][1], i2 |-> blocks[n][1] + blocks[n][3],
           j1 |-> blocks[n][2], j2 |-> blocks[n][2] + blocks[n][3]]]

\* max(sm.get_opcodes(), key=lambda op: (op[0] == "equal", op[3] - op[2])):
\* an equal opcode when there is one, of those the first with the largest
\* op[3] - op[2], which is j1 - i2; an opcode of another tag when the texts
\* have no character in common; ValueError (tag "") when both are empty.
BestOpcode(a, b) ==
    LET eq == EqualOpcodes(a, b)
    IN IF eq # <<>>
       THEN LET best == {n \in 1..Len(eq) :
                           \A o \in 1..Len(eq) :
                              eq[n].j1 - eq[n].i2 >= eq[o].j1 - eq[o].i2}
            IN eq[CHOOSE n \in best : \A o \in best : n <= o]
       ELSE IF a = <<>> /\ b = <<>> THEN NoMatch
       ELSE [tag |-> "other", i1 |-> 0, i2 |-> Len(a), j1 |-> 0, j2 |-> Len(b)]

\* (a fallback that joins the leading window only)
FallbackJoinWindow(prev_n, nxt_n, w) == prev_n \o <<" ">> \o FirstChars(nxt_n, w)

\* line 32: prev_n + " " + nxt_n
FallbackJoin(prev_n, nxt_n, w) == prev_n \o <<" ">> \o nxt_n

\* lines 18-25: the opcode max() returns for prev and nxt and window w
JoinMatch(p, n, w) ==
    BestOpcode(LastChars(NormalizeText(p), w), FirstChars(NormalizeText(n), w))

\* (an equal run of any length taken for the overlap)
QualifiesAnyEqual(op, mm) == op.tag = "equal"

\* line 28: tag == "equal" and (i2 - i1) >= min_match
Qualifies(op, mm) == op.tag = "equal" /\ op.i2 - op.i1 >= mm

\* (a deduplicating branch that goes on from the trailing window instead of
\* the whole accumulated text)
JoinTextFromTail(p, n, op, w, mm) ==
    LET prev_n == NormalizeText(p)
        nxt_n == NormalizeText(n)
        head == FirstChars(nxt_n, w)
    IN IF Qualifies(op, mm)
       THEN Strip(LastChars(prev_n, w) \o SubSeq(head, op.j2 + 1, Len(head)))
       ELSE Strip(FallbackJoin(prev_n, nxt_n, w))

\* lines 28-33: the text returned once max() has returned op
JoinText(p, n, op, w, mm) ==
    LET prev_n == NormalizeText(p)
        nxt_n == NormalizeText(n)
        head == FirstChars(nxt_n, w)
    IN IF Qualifies(op, mm)
       THEN Strip(prev_n \o SubSeq(head, op.j2 + 1, Len(head)))
       ELSE Strip(FallbackJoin(prev_n, nxt_n, w))

\* _dedup_join is called with an accumulated text and a chunk text.
StitchInit ==
    /\ InitWith(<<>>, {TestMaxRetries}, {DefaultBackoff}, {MaxParallel})
    /\ PlannerOff
    /\ prev \in PrevTexts
    /\ nxt \in NextTexts
    /\ match = NoMatch
    /\ deduped = <<>>
    /\ jpc = "idle"
    /\ MergeOff
    /\ WriterOff
    /\ CliOff

\* _dedup_join(prev, nxt, window, min_match), lines 18-33
DedupJoin ==
    /\ jpc = "idle"
    /\ LET op == JoinMatch(prev, nxt, JoinWindow)
       IN /\ match' = op
          /\ IF op.tag = ""
             THEN \* max() of an empty sequence
                  /\ jpc' = "raised"
                  /\ UNCHANGED deduped
             ELSE /\ jpc' = "returned"
                  /\ deduped' = JoinText(prev, nxt, op, JoinWindow, MinMatch)
    /\ UNCHANGED <<prev, nxt, merge, scheduler, planner, writer, cli>>

StitchNext == DedupJoin

StitchSpec == StitchInit /\ [][StitchNext]_vars

\* ---------------------------------------------------------- stitch_outputs
\* Chunk texts of a transcribed manifest: none (null, or the empty string:
\* line 55 makes both ""), blank only, zero-width only, texts with line
\* breaks at their ends, texts sharing runs with each other, and texts
\* longer than the window, one of them with no letter of the others.
ChunkTexts ==
    {<<>>,
     <<" ">>,
     <<ZeroWidth>>,
     <<"a", "b">>,
     <<"a", "b", "\n", "\n">>,
     <<"\n", "a", "b">>,
     <<"b", "a", "b", "b">>,
     <<"a", "a", "a", "b", "a">>,
     <<"a", "b", "a", "a", "b">>,
     <<"b", "b", "a", "b", "a", "a", "b">>,
     <<"c", "d", "c", "d", "c", "d", "c">>}

\* The records of a manifest of n chunks planned with a window of 60 seconds
\* and an overlap of 3 seconds, with the texts txt.
ManifestOf(txt) ==
    [k \in 1..Len(txt) |->
       [index |-> k - 1,
        t_start |-> Max(0, (k - 1) * 60 - 3) * TimeScale,
        t_end |-> (k * 60 + 3) * TimeScale,
        text |-> txt[k]]]

Manifests == {ManifestOf(txt) : txt \in UNION {[1..n -> ChunkTexts] : n \in 0..MaxMerge}}

\* stitch_outputs has read the manifest (lines 48-52).
MergeInit ==
    /\ InitWith(<<>>, {TestMaxRetries}, {DefaultBackoff}, {MaxParallel})
    /\ PlannerOff
    /\ JoinOff
    /\ loaded \in Manifests
    /\ si = 0
    /\ merged_text = <<>>
    /\ merged_chunks = <<>>
    /\ full_text = <<>>
    /\ spc = "loop"
    /\ WriterOff
    /\ CliOff

\* (a record that keeps the raw text)
MergedRecordRaw(c) ==
    [index |-> c.index, t_start |-> c.t_start, t_end |-> c.t_end, text |-> c.text]

\* lines 62-67: the record appended to merged_chunks
MergedRecord(c) ==
    [index |-> c.index, t_start |-> c.t_start, t_end |-> c.t_end,
     text |-> NormalizeText(c.text)]

\* lines 54-67: one pass of the loop body, with _dedup_join's window w and
\* min_match mm
StitchStep(w, mm) ==
    /\ spc = "loop"
    /\ si < Len(loaded)
    /\ LET c == loaded[si + 1]
           text == c.text
       IN IF text = <<>>
          THEN \* continue
               /\ si' = si + 1
               /\ UNCHANGED <<join, merged_text, merged_chunks, spc>>
          ELSE IF si = 0
          THEN /\ merged_text' = NormalizeText(text)
               /\ merged_chunks' = Append(merged_chunks, MergedRecord(c))
               /\ si' = si + 1
               /\ UNCHANGED <<join, spc>>
          ELSE LET op == JoinMatch(merged_text, text, w)
               IN /\ prev' = merged_text
                  /\ nxt' = text
                  /\ match' = op
                  /\ IF op.tag = ""
                     THEN \* ValueError of max() leaves stitch_outputs
                          /\ jpc' = "raised"
                          /\ spc' = "raised"
                          /\ UNCHANGED <<deduped, merged_text, merged_chunks, si>>
                     ELSE /\ jpc' = "returned"
                          /\ deduped' = JoinText(merged_text, text, op, w, mm)
                          /\ merged_text' = JoinText(merged_text, text, op, w, mm)
                          /\ merged_chunks' = Append(merged_chunks, MergedRecord(c))
                          /\ si' = si + 1
                          /\ UNCHANGED spc
    /\ UNCHANGED <<loaded, full_text, scheduler, planner, writer, cli>>

\* line 69: return merged_text.strip(), merged_chunks
StitchReturn ==
    /\ spc = "loop"
    /\ si = Len(loaded)
    /\ full_text' = Strip(merged_text)
    /\ spc' = "returned"
    /\ UNCHANGED <<join, loaded, si, merged_text, merged_chunks, scheduler, planner, writer, cli>>

MergeNext ==
    \/ StitchStep(JoinWindow, MinMatch)
    \/ StitchReturn

MergeSpec == MergeInit /\ [][MergeNext]_vars

\* ----------------------------------------------------------------- writer
\* Times of the writer are in milliseconds.
MsPerUnit == 1000 \div TimeScale

\* _fmt_ts of a time of ms milliseconds (fractions of a millisecond are cut
\* off): the fields of HH:MM:SS,mmm
FmtTs(ms) ==
    [h |-> (ms \div 1000) \div 3600,
     m |-> ((ms \div 1000) % 3600) \div 60,
     s |-> (ms \div 1000) % 60,
     ms |-> ms % 1000]

\* text[a:b]
Slice(text, a, b) ==
    IF a >= Min(b, Len(text)) THEN <<>> ELSE SubSeq(text, a + 1, Min(b, Len(text)))

\* _split_text_by_chars
SplitTextByChars(text, parts) ==
    IF parts <= 1 THEN <<text>>
    ELSE LET n == Max(1, Len(text) \div parts)
         IN [i \in 1..parts |->
               IF i < parts THEN Slice(text, (i - 1) * n, i * n)
               ELSE Slice(text, (parts - 1) * n, Len(text))]

\* line 112: the target length of a span, in seconds
SpanSecs == 10

\* nspans = max(1, int(round(dur / 10.0))), dur in milliseconds
Spans(dur) == Max(1, RoundDiv(dur, SpanSecs * 1000))

\* (spans of the target length, whatever the chunk's length)
CueTimeFixed(t0, dur, j, n) == t0 + j * SpanSecs * 1000

\* lines 116-117: t0 + (dur * j) / len(parts), in whole milliseconds
CueTime(t0, dur, j, n) == (t0 * n + dur * j) \div n

\* lines 108-113 for one merged chunk: parts
ChunkParts(ch) ==
    SplitTextByChars(ch.text,
                     Spans(Max(1, ch.t_end * MsPerUnit - ch.t_start * MsPerUnit)))

\* lines 108-119 for one merged chunk: its cues, numbered from idx
ChunkCues(ch, idx) ==
    LET t0 == ch.t_start * MsPerUnit
        t1 == ch.t_end * MsPerUnit
        dur == Max(1, t1 - t0)
        parts == ChunkParts(ch)
    IN [j \in 1..Len(parts) |->
          [idx |-> idx + j - 1,
           s |-> FmtTs(CueTime(t0, dur, j - 1, Len(parts))),
           e |-> FmtTs(CueTime(t0, dur, j, Len(parts))),
           text |-> Strip(parts[j])]]

\* _write_srt: the cues of transcript.srt
RECURSIVE SrtCues(_, _)
SrtCues(mc, idx) ==
    IF mc = <<>> THEN <<>>
    ELSE ChunkCues(Head(mc), idx)
         \o SrtCues(Tail(mc), idx + Len(ChunkCues(Head(mc), idx)))

\* _write_vtt: the cues of transcript.vtt, after the WEBVTT header
VttCues(mc) ==
    [k \in 1..Len(mc) |->
       [s |-> FmtTs(mc[k].t_start * MsPerUnit), e |-> FmtTs(mc[k].t_end * MsPerUnit),
        text |-> Strip(mc[k].text)]]

\* (the test of the line above repeated for transcript.vtt)
WriteVttWithSrt(o) == o.write_srt

\* line 140: if config.outputs.write_vtt
WriteVtt(o) == o.write_vtt

\* main lines 106-118: write_side_outputs writes the enabled files, main
\* reports success and returns.
WriteSideOutputs ==
    /\ mpc = "running"
    /\ spc = "returned"
    /\ files' =
         [txt |-> IF outputs.write_txt THEN Some(full_text) ELSE files.txt,
          json |-> IF outputs.write_json
                   THEN Some([chunks |-> merged_chunks, full_text |-> full_text])
                   ELSE files.json,
          srt |-> IF outputs.write_srt THEN Some(SrtCues(merged_chunks, 1))
                  ELSE files.srt,
          vtt |-> IF WriteVtt(outputs) THEN Some(VttCues(merged_chunks))
                  ELSE files.vtt]
    /\ srt_parts' = IF outputs.write_srt
                    THEN [k \in 1..Len(merged_chunks) |-> ChunkParts(merged_chunks[k])]
                    ELSE srt_parts
    /\ mpc' = "exit0"
    /\ UNCHANGED <<outputs, order, scheduler, planner, stitcher>>

\* Merged chunks given to the writer: lengths around the halves that
\* round(dur / 10.0) rounds to the even side, a chunk of one time unit, and
\* texts shorter and longer than the number of spans.
CueChunkSecs == {5, 15, 25, 35, 63}
CueChunks ==
    {[index |-> 0, t_start |-> t0 * TimeScale, t_end |-> (t0 + d) * TimeScale, text |-> txt] :
        t0 \in {0, 57}, d \in CueChunkSecs,
        txt \in {<<"a">>, <<"a", "b", " ", "c", "d", "e", "f">>}}
    \cup {[index |-> 0, t_start |-> 0, t_end |-> 1, text |-> <<"a", "b">>]}

\* Transcript files that an earlier call left in the output directory.
OldFiles ==
    [txt |-> Some(<<"o", "l", "d">>),
     json |-> Some([chunks |-> <<>>, full_text |-> <<"o", "l", "d">>]),
     srt |-> Some(<<[idx |-> 1, s |-> FmtTs(0), e |-> FmtTs(1000), text |-> <<"o", "l", "d">>]>>),
     vtt |-> Some(<<[s |-> FmtTs(0), e |-> FmtTs(1000), text |-> <<"o", "l", "d">>]>>)]

\* Every combination of the four flags.
OutputFlags ==
    [write_txt : BOOLEAN, write_json : BOOLEAN, write_srt : BOOLEAN, write_vtt : BOOLEAN]

\* stitch_outputs has returned, write_side_outputs is called.
WriterInit ==
    /\ InitWith(<<>>, {TestMaxRetries}, {DefaultBackoff}, {MaxParallel})
    /\ PlannerOff
    /\ JoinOff
    /\ loaded = <<>>
    /\ si = 0
    /\ merged_text = <<>>
    /\ \E n \in 0..MaxCueChunks : \E mc \in [1..n -> CueChunks] :
          merged_chunks = [k \in 1..n |-> [mc[k] EXCEPT !.index = k - 1]]
    /\ full_text = <<"a">>
    /\ spc = "returned"
    /\ outputs \in OutputFlags
    /\ files \in {NoFiles, OldFiles}
    /\ srt_parts = <<>>
    /\ mpc = "running"
    /\ order = <<>>

WriterNext == WriteSideOutputs

WriterSpec == WriterInit /\ [][WriterNext]_vars

\* ------------------------------------------------------------------- main
\* ChunkingConfig: the defaults, which main cannot override
DefaultChunking ==
    [max_file_mb |-> 25, target_chunk_mb |-> 16, max_chunk_secs |-> 900,
     overlap_secs |-> 3]

\* probe_audio: the default bit rate
DefaultBitRate == 128000

\* _dedup_join: the defaults of window and min_match
DefaultWindow == 500
DefaultMinMatch == 30

\* A file that the default policy cuts into NumChunks chunks: windows of 900
\* seconds, the last one of 100 seconds.
MainDuration == ((NumChunks - 1) * 900 + 100) * TimeScale

\* The text the transcription collaborator returns for chunk i: "hello" and
\* the chunk's index.
Digits == <<"0", "1", "2", "3", "4", "5", "6", "7", "8", "9">>
StubText(i) == <<"h", "e", "l", "l", "o", " ", Digits[i]>>

\* What the collaborator can do for chunk i in a run of main.
MainResponses(i) ==
    {[kind |-> "text", msg |-> StubText(i)]}
    \cup {[kind |-> "raise", msg |-> m] : m \in ErrorMessages}

\* main has parsed its arguments and made the default configuration and
\* the work directory (lines 64-84); probe_audio is called.
MainInit ==
    /\ InitWith(<<>>, {TestMaxRetries}, {DefaultBackoff}, {MaxParallel})
    /\ meta = [duration |-> 0, bit_rate |-> 0]
    /\ chunking = DefaultChunking
    /\ ppc = "off"
    /\ window = 0
    /\ t = 0
    /\ cut_points = <<>>
    /\ chunks = <<>>
    /\ ffmpeg_calls = <<>>
    /\ StitcherOff
    /\ outputs = DefaultOutputs
    /\ files = NoFiles
    /\ srt_parts = <<>>
    /\ mpc = "probe"
    /\ order = <<>>

\* The duration field ffprobe reports for the input: none, or the length.
MainDurationFields == {None, Some(MainDuration)}

\* line 87: probe_audio.  ffprobe ends with a return code; a code other than
\* 0 raises RuntimeError (ffprobe.py line 13), which ends main with
\* sys.exit(1) (lines 123-125); otherwise plan_and_segment is called with
\* the metadata.
MainProbe(returncode, field) ==
    /\ mpc = "probe"
    /\ IF returncode # 0
       THEN /\ mpc' = "exit1"
            /\ UNCHANGED <<meta, ppc>>
       ELSE /\ meta' = [duration |-> ProbeDuration(field), bit_rate |-> DefaultBitRate]
            /\ ppc' = "idle"
            /\ mpc' = "running"
    /\ UNCHANGED <<chunking, window, t, cut_points, chunks, ffmpeg_calls, order,
                   scheduler, stitcher, writer>>

\* (a main that goes on after an exception of plan_and_segment)
PlanLeft == ppc \in {"done", "raised"}

\* lines 92-98: plan_and_segment returned, its exception did not leave the
\* try block
PlanReturned == ppc = "done"

\* line 100: transcribe_manifest is called once plan_and_segment returned;
\* OPENAI_API_KEY is set in the environment or not.
MainTranscribe(cred) ==
    /\ mpc = "running"
    /\ PlanReturned
    /\ pc = "idle"
    /\ Invoke(cred)

\* a step of transcribe_manifest or of its pool
MainWorker(i) ==
    \/ WorkerStart(i)
    \/ \E r \in MainResponses(i), lat \in Latencies : Respond(i, r, lat)
    \/ WakeUp(i)
    \/ SetLatency(i)
    \/ SetDone(i)
    \/ SetError(i)

MainRunStep ==
    \/ \E i \in Chunks : ObservedCompletion(i)
    \/ ExitLoop
    \/ DumpsStep
    \/ Truncate
    \/ WriteContent
    \/ Raise
    \/ \E i \in Chunks : MainWorker(i)

\* (chunks taken in the order in which they completed)
CompletionOrder(n) == IF Len(order) = n THEN order ELSE [k \in 1..n |-> k]

\* line 54: enumerate(chunks), the chunks in the order of the manifest
ManifestOrder(n) == [k \in 1..n |-> k]

\* line 105 and stitcher.py lines 48-52: stitch_outputs is called once
\* transcribe_manifest returned, and reads the manifest.
LoadManifest ==
    /\ spc = "off"
    /\ loaded' = [k \in 1..Len(disk) |->
                    [index |-> disk[ManifestOrder(Len(disk))[k]].index,
                     t_start |-> disk[ManifestOrder(Len(disk))[k]].t_start,
                     t_end |-> disk[ManifestOrder(Len(disk))[k]].t_end,
                     text |-> disk[ManifestOrder(Len(disk))[k]].text]]
    /\ si' = 0
    /\ merged_text' = <<>>
    /\ merged_chunks' = <<>>
    /\ spc' = "loop"
    /\ UNCHANGED <<join, full_text, scheduler, planner, writer, cli>>

StitchLoad ==
    /\ mpc = "running"
    /\ pc = "returned"
    /\ LoadManifest

\* lines 123-125: an exception of a stage ends main, sys.exit(1)
MainExcept ==
    /\ mpc = "running"
    /\ ppc = "raised" \/ pc = "raised" \/ spc = "raised"
    /\ mpc' = "exit1"
    /\ UNCHANGED <<order, scheduler, planner, stitcher, writer>>

MainNext ==
    \/ \E returncode \in ReturnCodes, field \in MainDurationFields :
          MainProbe(returncode, field)
    \/ PlanStart
    \/ CutStep
    \/ \E returncode \in ReturnCodes : Extract(returncode)
    \/ WriteManifest
    \/ \E cred \in BOOLEAN : MainTranscribe(cred)
    \/ MainRunStep
    \/ StitchLoad
    \/ StitchStep(DefaultWindow, DefaultMinMatch)
    \/ StitchReturn
    \/ WriteSideOutputs
    \/ MainExcept

MainSpec == MainInit /\ [][MainNext]_vars

\* ------------------------------------------------------------- end to end
\* The stages called one after the other on one manifest file, with a
\* transcription collaborator that returns "hello <index>" for every chunk.
\* Policies whose window is 60 seconds, and durations of one to four windows.
E2EDurationSecs == {60, 120, 125, 126, 181}
E2EOverlapSecs == {0, 3, 5}

E2EInit ==
    /\ InitWith(<<>>, {TestMaxRetries}, {DefaultBackoff}, {MaxParallel})
    /\ \E d \in E2EDurationSecs :
          meta = [duration |-> d * TimeScale, bit_rate |-> DefaultBitRate]
    /\ \E o \in E2EOverlapSecs :
          chunking = [max_file_mb |-> 25, target_chunk_mb |-> 16,
                      max_chunk_secs |-> 60, overlap_secs |-> o]
    /\ ppc = "idle"
    /\ window = 0
    /\ t = 0
    /\ cut_points = <<>>
    /\ chunks = <<>>
    /\ ffmpeg_calls = <<>>
    /\ StitcherOff
    /\ WriterOff
    /\ CliOff

\* transcribe_manifest with the stub: work (lines 116-121) has recorded the
\* result of one more chunk, in any order, and the save of line 134 has
\* written it to the file.
StubTranscribe(i) ==
    /\ ppc = "done"
    /\ spc = "off"
    /\ i \in 1..Len(disk)
    /\ IsPending(disk[i])
    /\ disk' = [disk EXCEPT ![i] =
                  [@ EXCEPT !.text = StubText(disk[i].index + 1),
                            !.latency_ms = Some(250),
                            !.status = "done"]]
    /\ UNCHANGED <<run, planner, stitcher, writer, cli>>

\* stitch_outputs is called once transcribe_manifest returned
E2EStitchLoad ==
    /\ ppc = "done"
    /\ \A i \in 1..Len(disk) : ~IsPending(disk[i])
    /\ LoadManifest

E2ENext ==
    \/ PlanStart
    \/ CutStep
    \/ \E returncode \in ReturnCodes : Extract(returncode)
    \/ WriteManifest
    \/ \E i \in 1..Len(disk) : StubTranscribe(i)
    \/ E2EStitchLoad
    \/ StitchStep(DefaultWindow, DefaultMinMatch)
    \/ StitchReturn

E2ESpec == E2EInit /\ [][E2ENext]_vars

\* ------------------------------------------------------------------ claims
StatusStepOK(old, new) == new = old \/ (old = "pending" /\ new \in Terminal)

Loaded == Len(manifest) = NumChunks

\* C1: every record is created pending by the planner; in the memory of a
\* run and in the manifest file (from one file content to the next, the
\* content about to replace the file included) a record's status only moves
\* from pending to done or to error and a done or error status stays.
C1_StatusLifecycle ==
    /\ (pc = "idle" => \A i \in Chunks : disk[i].status = "pending")
    /\ [][ /\ (Loaded /\ pc' \in Running \cup {"returned", "raised"} /\ pc \in Running)
               => \A i \in Chunks :
                     StatusStepOK(manifest[i].status, manifest'[i].status)
           /\ (disk # <<>> /\ disk' # <<>>)
               => \A i \in Chunks : StatusStepOK(disk[i].status, disk'[i].status)
           /\ (pc = "trunc" /\ disk # <<>>)
               => \A i \in Chunks : StatusStepOK(disk[i].status, content[i].status)
           /\ (pc' = "loop" /\ pc \notin Running)
               => \A i \in Chunks : manifest'[i].status = disk[i].status
         ]_vars

\* C1 witness: a re-run on a manifest with a saved terminal record has
\* brought a record that was still pending to a terminal status.
C1_Witness ==
    /\ pc = "loop"
    /\ \E i, j \in Chunks :
          /\ manifest_content[i].status \in Terminal
          /\ manifest_content[j].status = "pending"
          /\ manifest[j].status \in Terminal

Last(q) == q[Len(q)]
TransientRaise(r) == r.kind = "raise" /\ r.msg = <<"Error:", "Rate_Limit_Exceeded">>
FatalRaise(r) == r.kind = "raise" /\ r.msg = <<"Invalid", "audio", "format">>
RetryLoopLeft(i) == wpc[i] \in {"set_latency", "set_done", "set_error", "finished"}

\* C2: under fair scheduling and an answering collaborator a run that has
\* started returns, and when it has returned every record that was pending
\* at its start is done or error in memory and in the manifest file.
C2_ReturnsAllTerminal ==
    /\ [](pc = "returned" =>
            \A i \in pending : /\ manifest[i].status \in Terminal
                               /\ disk[i].status \in Terminal)
    /\ ((pc = "loop") ~> (pc = "returned"))

\* C3: a chunk whose transcription failed for good has status error and the
\* captured message in its record; nothing is raised out of a run that has
\* loaded its manifest; when the run has returned every record that was
\* pending is terminal.
C3_FailureContained ==
    /\ \A i \in Chunks :
          (wpc[i] = "finished" /\ Last(resps[i]).kind = "raise")
          => /\ manifest[i].status = "error"
             /\ manifest[i].error = Some(Last(resps[i]).msg)
    /\ (pc \in {"raising", "raised"} => ~Loaded)
    /\ (pc = "returned" => \A i \in pending : manifest[i].status \in Terminal)

\* C4: a chunk whose every call raised a transient-marked error, once its
\* retry loop is left, was called max_retries + 1 times, slept max_retries
\* times, the n-th sleep (from 0) for backoff_base_ms * 2^n ms, and is in
\* error; no chunk is ever called or put to sleep more often than that.
C4_RetryLaw ==
    \A i \in Chunks :
       /\ Calls(i) <= max_retries + 1
       /\ Len(sleeps[i]) <= max_retries
       /\ (/\ RetryLoopLeft(i)
           /\ \A k \in 1..Len(resps[i]) : TransientRaise(resps[i][k]))
          => /\ Len(resps[i]) = max_retries + 1
             /\ Len(sleeps[i]) = max_retries
             /\ \A n \in 0..(max_retries - 1) :
                   sleeps[i][n + 1] = backoff_base_ms * (2 ^ n)
             /\ manifest[i].status = "error"

\* C4 witness: a chunk has used up a retry budget of at least two on
\* transient errors and its worker has finished.
C4_Witness ==
    \E i \in Chunks :
       /\ wpc[i] = "finished"
       /\ max_retries >= 2
       /\ Len(sleeps[i]) = max_retries
       /\ \A k \in 1..Len(resps[i]) : TransientRaise(resps[i][k])

\* C5: a response that is a non-transient error is the last response of its
\* chunk: the retry loop is left, there were exactly as many sleeps as
\* responses before it, and the record is in error.
C5_FatalNeverRetried ==
    \A i \in Chunks : \A k \in 1..Len(resps[i]) :
       FatalRaise(resps[i][k])
       => /\ k = Len(resps[i])
          /\ wpc[i] \in {"set_error", "finished"}
          /\ Len(sleeps[i]) = k - 1
          /\ manifest[i].status = "error"

\* C5 witness: a non-transient error followed a transient one while retry
\* budget was left, and the worker has finished.
C5_Witness ==
    \E i \in Chunks :
       /\ wpc[i] = "finished"
       /\ Len(resps[i]) = 2
       /\ TransientRaise(resps[i][1])
       /\ FatalRaise(resps[i][2])
       /\ max_retries >= 2

\* C6: in a run, a record that was done or error in the manifest as loaded
\* gets no transcription call and no worker, and is unchanged in memory, in
\* the content being written and in the file; a run on a manifest without
\* pending record makes no call and leaves the file content as it was.
C6_RerunTouchesOnlyPending ==
    Loaded =>
      /\ \A i \in Chunks :
            manifest_content[i].status # "pending"
            => /\ Calls(i) = 0
               /\ wpc[i] = "none"
               /\ manifest[i] = manifest_content[i]
               /\ (disk # <<>> => disk[i] = manifest_content[i])
               /\ (pc \in {"trunc", "write"} => content[i] = manifest_content[i])
      /\ (/\ pc = "returned"
          /\ \A i \in Chunks : manifest_content[i].status # "pending")
         => /\ disk = manifest_content
            /\ \A i \in Chunks : Calls(i) = 0

\* C6 witness: a run on a manifest that held a done or error record has
\* returned after its final write.
C6_Witness ==
    /\ pc = "returned"
    /\ writes >= 1
    /\ \E i \in Chunks : manifest_content[i].status \in Terminal

\* C7: every completion that was handled has been followed by a write of
\* the whole manifest when the loop handles the next one and when the run
\* has ended, the file then shows every handled chunk as it is in memory,
\* terminal; a write never drops a chunk the file showed terminal.
C7_SaveAfterEachCompletion ==
    /\ (Loaded /\ pc \in {"loop", "returned", "raised"})
       => \A i \in handled : /\ disk[i] = manifest[i]
                             /\ disk[i].status \in Terminal
    /\ (pc = "loop" => writes = Cardinality(handled))
    /\ (pc = "trunc" =>
          \A i \in Chunks : disk[i].status \in Terminal
                             => content[i].status \in Terminal)

\* C8: when the process is terminated inside a run, the file it leaves is a
\* manifest in which every record that was terminal when the run loaded it
\* is as it was, and every record the run was given is still pending or has
\* the terminal status the run reached.
C8_CrashLosesOnlyInFlight ==
    [][(pc \in Running /\ pc' = "idle")
       => /\ Len(disk') = NumChunks
          /\ \A i \in Chunks \ pending : disk'[i] = manifest_content[i]
          /\ \A i \in pending :
                disk'[i].status \in {"pending", manifest[i].status}]_vars

\* C9: a record that no worker is in the middle of updating has a text iff
\* it is done, a latency iff it is done, and an error message iff it is in
\* error.
C9_FieldsMatchStatus ==
    Loaded =>
      \A i \in Chunks :
         wpc[i] \in {"none", "queued", "call", "sleep", "finished"}
         => /\ (manifest[i].text # None) <=> (manifest[i].status = "done")
            /\ (manifest[i].latency_ms # None) <=> (manifest[i].status = "done")
            /\ (manifest[i].error # None) <=> (manifest[i].status = "error")

\* C10: an invocation without credential ends by raising, with no worker
\* started, no transcription call, no manifest loaded, and the file neither
\* truncated nor written.
C10_NoCredentialNoWork ==
    [][~credential'
       => /\ pc' = "raised"
          /\ disk' = disk
          /\ writes' = 0
          /\ manifest' = <<>>
          /\ \A i \in Chunks : wpc'[i] = "none" /\ resps'[i] = <<>>]_vars

\* C10 witness: an invocation without credential has raised.
C10_Witness == pc = "raised" /\ ~credential

\* C11: the records handed to the pool are exactly those that were pending
\* in the manifest as loaded, each handed over once, at the start of the run
\* (a work item is never queued or started again); a step that changes a
\* record in memory is a step of the one work item that was given that
\* record, taken from a position where work writes, and it changes no other
\* record.
C11_OneWorkerPerRecord ==
    /\ [](Loaded =>
            /\ pending = {i \in Chunks : manifest_content[i].status = "pending"}
            /\ \A i \in Chunks : wpc[i] # "none" <=> i \in pending)
    /\ [][(Loaded /\ Len(manifest') = NumChunks /\ pc \in Running)
          => \A i \in Chunks :
               /\ (wpc'[i] = "queued" => wpc[i] = "queued")
               /\ (wpc[i] = "finished" => wpc'[i] = "finished")
               /\ (wpc'[i] = "call" /\ wpc[i] # "call"
                     => wpc[i] \in {"queued", "sleep"})
               /\ (manifest'[i] # manifest[i]
                     => /\ wpc[i] \in {"call", "set_latency", "set_done", "set_error"}
                        /\ wpc'[i] # wpc[i]
                        /\ \A j \in Chunks \ {i} :
                              manifest'[j] = manifest[j] /\ wpc'[j] = wpc[j])
         ]_vars

\* C11 witness: two work items are in the middle of writing, each to its own
\* record, the other records untouched.
C11_Witness ==
    \E i, j \in Chunks :
       /\ i # j
       /\ wpc[i] = "set_latency" /\ manifest[i].text # None
       /\ wpc[j] = "set_error" /\ manifest[j].status = "error"
       /\ manifest[j].text = None /\ manifest[i].status = "pending"

\* C12: the work items a pool thread holds (from the first call to the last
\* write of work, backoff sleeps included) are never more than
\* parallel_requests, and parallel_requests is between 1 and 10.
C12_PoolBound ==
    /\ Cardinality({i \in Chunks :
          wpc[i] \in {"call", "sleep", "set_latency", "set_done", "set_error"}})
       <= parallel_requests
    /\ parallel_requests >= 1
    /\ parallel_requests <= 10

\* C12 witness: the pool is full with a work item in a backoff sleep while
\* another pending record waits in the queue.
C12_Witness ==
    \E i, j \in Chunks :
       /\ wpc[i] = "sleep"
       /\ wpc[j] = "queued"
       /\ Cardinality({k \in Chunks : wpc[k] \in {"call", "sleep"}}) = parallel_requests

C14_OverlapExact ==
    ppc = "done" =>
      LET n == Len(disk)
          ov == chunking.overlap_secs * TimeScale
      IN /\ \A k \in 1..n :
               /\ (k < n => disk[k].overlap_tail = ov)
               /\ (k > 1 => disk[k].overlap_head = ov)
               /\ (k < n => disk[k].overlap_tail = disk[k + 1].overlap_head)
         /\ disk[1].overlap_head = 0
         /\ disk[n].overlap_tail = 0

\* C15: in the manifest the planner wrote, chunk 0 starts at 0, the last
\* chunk ends at the duration, every chunk has t_start < t_end <= duration,
\* t_start grows strictly with the index, and no chunk starts after the end
\* of the chunk before it.
C15_WindowsCover ==
    ppc = "done" =>
      LET n == Len(disk)
      IN /\ n >= 1
         /\ disk[1].t_start = 0
         /\ disk[n].t_end = meta.duration
         /\ \A k \in 1..n :
               /\ disk[k].t_start < disk[k].t_end
               /\ disk[k].t_end <= meta.duration
               /\ (k > 1 => /\ disk[k - 1].t_start < disk[k].t_start
                            /\ disk[k].t_start <= disk[k - 1].t_end)

\* C15 witness: a manifest of at least three chunks with a positive overlap
\* and a last window shorter than the others was written.
C15_Witness ==
    /\ ppc = "done"
    /\ Len(disk) >= 3
    /\ chunking.overlap_secs > 0
    /\ disk[Len(disk)].t_end - disk[Len(disk)].t_start < window

\* C16: the manifest the planner wrote has exactly ceil(duration / window)
\* chunks, window being target_chunk_mb * 8000 / max(1, bit_rate div 1000)
\* clamped into [60, max_chunk_secs] seconds (compared here as exact
\* fractions), and the index of every record is its position in the list,
\* counted from 0.
C16_ChunkCount ==
    ppc = "done" =>
      LET kbps == IF meta.bit_rate \div 1000 >= 1 THEN meta.bit_rate \div 1000 ELSE 1
          by_mb == chunking.target_chunk_mb * 8000
          capped == IF by_mb <= chunking.max_chunk_secs * kbps
                    THEN by_mb ELSE chunking.max_chunk_secs * kbps
          \* window = win_kbps / kbps seconds
          win_kbps == IF capped >= 60 * kbps THEN capped ELSE 60 * kbps
          a == meta.duration * kbps
          b == TimeScale * win_kbps
      IN /\ Len(disk) = (a + b - 1) \div b
         /\ \A k \in 1..Len(disk) : disk[k].index = k - 1

\* C17: once computed, the window is 60 s when target_chunk_mb * 8000 /
\* max(1, bit_rate div 1000) is at most 60, max_chunk_secs when it is at
\* least max_chunk_secs, and otherwise that quotient (to the nearest time
\* unit); it is never below 60 s and never above max_chunk_secs.
C17_WindowClamped ==
    (ppc \in {"cut", "segment", "done"} /\ meta.bit_rate >= 1) =>
      LET kbps == IF meta.bit_rate \div 1000 >= 1 THEN meta.bit_rate \div 1000 ELSE 1
          by_mb == chunking.target_chunk_mb * 8000
          err == window * kbps - by_mb * TimeScale
      IN /\ window >= 60 * TimeScale
         /\ window <= chunking.max_chunk_secs * TimeScale
         /\ (by_mb <= 60 * kbps => window = 60 * TimeScale)
         /\ (by_mb >= chunking.max_chunk_secs * kbps
               => window = chunking.max_chunk_secs * TimeScale)
         /\ (by_mb > 60 * kbps /\ by_mb < chunking.max_chunk_secs * kbps
               => 2 * err <= kbps /\ 2 * err >= 0 - kbps)

\* C17 witness: a window was computed for a file whose size-based length is
\* below 60 seconds.
C17_Witness ==
    /\ ppc = "cut"
    /\ meta.bit_rate >= 1000
    /\ chunking.target_chunk_mb * 8000 < 60 * (meta.bit_rate \div 1000)
    /\ chunking.max_chunk_secs > 60
    /\ window = 60 * TimeScale

\* C18: with a duration that is not positive (0 is what the probe reports
\* for a missing duration field) the first step of the planner raises, and
\* at no time is there a cut point, a chunk record, an ffmpeg call or a
\* manifest file.
C18_NoDurationNoPlan ==
    /\ [](meta.duration <= 0
            => /\ ppc \in {"idle", "raised"}
               /\ cut_points = <<>>
               /\ chunks = <<>>
               /\ ffmpeg_calls = <<>>
               /\ disk = <<>>)
    /\ [][(meta.duration <= 0 /\ ppc = "idle") => ppc' = "raised"]_vars

\* C18 witness: the planner has raised on the duration 0 the probe reported.
C18_Witness ==
    /\ ppc = "raised"
    /\ meta.duration = 0
    /\ ffmpeg_calls = <<>>

\* C19: the ffmpeg calls issued are one per cut point, in index order, each
\* issued only after every earlier one returned 0 and its record was
\* appended; after a call that returned non-zero the planner has raised, no
\* further call is issued and there is no manifest file; a manifest is
\* written only after one successful call per cut point.
C19_ExtractionAborts ==
    LET n == Len(ffmpeg_calls)
        failed == \E j \in 1..n : ffmpeg_calls[j].returncode # 0
    IN /\ n <= Len(cut_points)
       /\ \A j \in 1..n :
             /\ ffmpeg_calls[j].idx = j - 1
             /\ (j < n => ffmpeg_calls[j].returncode = 0)
       /\ Len(chunks) = (IF failed THEN n - 1 ELSE n)
       /\ (failed => ppc = "raised" /\ disk = <<>>)
       /\ (ppc = "raised" /\ meta.duration > 0 => failed)
       /\ (disk # <<>> => ppc = "done")
       /\ (ppc = "done" => ~failed /\ n = Len(cut_points) /\ disk = chunks)

\* C19 witness: the third extraction failed after two that succeeded, with
\* more chunks planned; planning has aborted.
C19_Witness ==
    /\ ppc = "raised"
    /\ Len(ffmpeg_calls) = 3
    /\ ffmpeg_calls[3].returncode # 0
    /\ Len(cut_points) > 3
    /\ disk = <<>>

\* C20: when _dedup_join has chosen an equal run of at least min_match
\* characters, it returns the normalized accumulated text followed by
\* everything of the normalized next text that comes after the matched run
\* (the rest of its leading window and all of the text beyond the window),
\* trimmed at the ends.
C20_DedupKeepsRest ==
    (jpc = "returned" /\ match.tag = "equal" /\ match.i2 - match.i1 >= MinMatch)
    => deduped = Strip(NormalizeText(prev)
                       \o SubSeq(NormalizeText(nxt), match.j2 + 1,
                                 Len(NormalizeText(nxt))))

\* The trailing window of the accumulated text and the leading window of the
\* next text, as _dedup_join compares them, and the length of their longest
\* common contiguous run.
JoinTail == LastChars(NormalizeText(prev), JoinWindow)
JoinHead == FirstChars(NormalizeText(nxt), JoinWindow)
LongestRun ==
    FindLongestMatch(JoinTail, JoinHead, 0, Len(JoinTail), 0, Len(JoinHead))[3]

\* C21: the best match of _dedup_join is an equal run whenever the two
\* windows have an equal run, it is as long as the longest equal run of the
\* alignment, and the deduplicating condition (equal, at least min_match
\* characters) holds exactly when the longest equal run of the two windows
\* has at least min_match characters.
C21_BestIsLongestEqual ==
    jpc = "returned" =>
      /\ LongestRun > 0 => match.tag = "equal"
      /\ match.tag = "equal" =>
           \A n \in 1..Len(EqualOpcodes(JoinTail, JoinHead)) :
              match.i2 - match.i1 >= EqualOpcodes(JoinTail, JoinHead)[n].i2
                                     - EqualOpcodes(JoinTail, JoinHead)[n].i1
      /\ (match.tag = "equal" /\ match.i2 - match.i1 >= MinMatch)
         <=> LongestRun >= MinMatch

\* The last join took the fallback branch: max() returned an opcode that is
\* not an equal run of min_match characters.
FellBack ==
    /\ jpc = "returned"
    /\ ~(match.tag = "equal" /\ match.i2 - match.i1 >= MinMatch)

\* C22 as stated: when no qualifying match is found, the join result is the
\* accumulated text as it was, one space and the whole normalized text of the
\* next chunk, trimmed at the ends.
C22_FallbackKeepsAccumulated ==
    FellBack => deduped = Strip(prev \o <<" ">> \o NormalizeText(nxt))

\* C22 amended: when no qualifying match is found, the join result is the
\* accumulated text normalized once more, one space and the whole normalized
\* text of the next chunk, trimmed at the ends; it is the new accumulated text.
C22_FallbackKeepsBoth ==
    FellBack =>
      /\ deduped = Strip(NormalizeText(prev) \o <<" ">> \o NormalizeText(nxt))
      /\ merged_text = deduped

\* A fallback join of a non-empty accumulated text with a text longer than the
\* window.
C22_Witness ==
    /\ FellBack
    /\ NormalizeText(prev) # <<>>
    /\ Len(NormalizeText(nxt)) > JoinWindow
    /\ spc = "returned"

\* The length of the shared run of the round trip (40 characters for a
\* min_match of 30), and the number of places where r occurs in s.
RunLen == MinMatch + 1
Occurrences(r, s) ==
    Cardinality({i \in 1..(Len(s) - Len(r) + 1) : SubSeq(s, i, i + Len(r) - 1) = r})

\* C23: when the manifest is two chunks A and B, the last RunLen characters of
\* normalized A are the first RunLen characters of normalized B, and that run
\* occurs nowhere else in A or in B, the full text stitch_outputs returns
\* contains the run exactly once (stated for runs that neither begin nor end
\* with whitespace, which the final trim of the full text cannot touch).
C23_RoundTrip ==
    (spc = "returned" /\ Len(loaded) = 2) =>
      LET a == NormalizeText(loaded[1].text)
          b == NormalizeText(loaded[2].text)
          r == LastChars(a, RunLen)
      IN (/\ Len(a) >= RunLen
          /\ Len(b) >= RunLen
          /\ FirstChars(b, RunLen) = r
          /\ Strip(r) = r
          /\ Occurrences(r, a) = 1
          /\ Occurrences(r, b) = 1)
         => Occurrences(r, full_text) = 1

\* The chunks of the manifest that have a text, in manifest order.
Survivors == SelectSeq(loaded, LAMBDA c : c.text # <<>>)

\* What stitching the chunks recs, all with text, comes to when the first of
\* them is the first chunk of its manifest: whether it returns, and the
\* accumulated text.
RECURSIVE StitchedAlone(_)
StitchedAlone(recs) ==
    IF recs = <<>> THEN [ok |-> TRUE, text |-> <<>>]
    ELSE IF Len(recs) = 1 THEN [ok |-> TRUE, text |-> NormalizeText(recs[1].text)]
    ELSE LET before == StitchedAlone(SubSeq(recs, 1, Len(recs) - 1))
             c == recs[Len(recs)]
             op == JoinMatch(before.text, c.text, JoinWindow)
         IN IF ~before.ok \/ op.tag = ""
            THEN [ok |-> FALSE, text |-> <<>>]
            ELSE [ok |-> TRUE,
                  text |-> JoinText(before.text, c.text, op, JoinWindow, MinMatch)]

\* C24: a chunk without text, wherever it stands in the manifest, has no entry
\* in merged_chunks, and stitch_outputs ends as it would for the manifest
\* without the chunks that have no text: with the same full text, and
\* raising only if it would raise for that manifest.
C24_TextlessSkipped ==
    spc \in {"returned", "raised"} =>
      /\ (spc = "returned") = StitchedAlone(Survivors).ok
      /\ spc = "returned" =>
           /\ full_text = Strip(StitchedAlone(Survivors).text)
           /\ Len(merged_chunks) = Len(Survivors)
           /\ \A k \in 1..Len(merged_chunks) :
                 merged_chunks[k].index = Survivors[k].index

\* C25: when stitch_outputs returns, merged_chunks has exactly one entry for
\* each chunk with text, in manifest order, with the chunk's index, t_start
\* and t_end as they are in the manifest and its whole normalized text,
\* whatever the joins dropped from the full text.
C25_MergedChunksKeepAll ==
    spc = "returned" =>
      merged_chunks =
        [k \in 1..Len(Survivors) |->
           [index |-> Survivors[k].index,
            t_start |-> Survivors[k].t_start,
            t_end |-> Survivors[k].t_end,
            text |-> NormalizeText(Survivors[k].text)]]

\* A manifest with a chunk without text, whose last join dropped an overlap
\* from the full text, and a chunk text that normalizing changed.
C25_Witness ==
    /\ spc = "returned"
    /\ Len(Survivors) < Len(loaded)
    /\ Len(merged_chunks) >= 2
    /\ jpc = "returned"
    /\ match.tag = "equal" /\ match.i2 - match.i1 >= MinMatch
    /\ Len(full_text) < Len(NormalizeText(prev)) + Len(NormalizeText(nxt))
    /\ \E k \in 1..Len(merged_chunks) : merged_chunks[k].text # Survivors[k].text

\* The cues of transcript.srt once it is written, and a timestamp in
\* milliseconds.
SrtWritten == mpc = "exit0" /\ outputs.write_srt
Cues == files.srt[1]
ToMs(f) == ((f.h * 60 + f.m) * 60 + f.s) * 1000 + f.ms

\* Start, end and length of merged chunk k, in milliseconds.
ChunkT0(k) == merged_chunks[k].t_start * MsPerUnit
ChunkT1(k) == merged_chunks[k].t_end * MsPerUnit
ChunkDur(k) == ChunkT1(k) - ChunkT0(k)

\* n is the whole number nearest to dur / 10 seconds, the even one of two
\* that are equally near.
NearestTenth(n, dur) ==
    LET off == IF dur >= n * 10000 THEN dur - n * 10000 ELSE n * 10000 - dur
    IN 2 * off < 10000 \/ (2 * off = 10000 /\ n % 2 = 0)

\* spans = max(1, round(chunk_duration / 10)) of merged chunk k
SpansOf(k) ==
    CHOOSE n \in 1..(ChunkDur(k) \div 10000 + 1) :
       NearestTenth(n, ChunkDur(k)) \/ (n = 1 /\ NearestTenth(0, ChunkDur(k)))

\* cues of the chunks before chunk k
RECURSIVE CuesBefore(_)
CuesBefore(k) == IF k <= 1 THEN 0 ELSE CuesBefore(k - 1) + SpansOf(k - 1)

\* C30: transcript.srt has, for each merged chunk in order, exactly
\* spans = max(1, round(chunk_duration / 10)) cues; the j-th of them begins
\* and ends at the bounds of the j-th of spans equal parts of
\* [t_start, t_end], to the millisecond (so the first begins at t_start, the
\* last ends at t_end and consecutive cues abut); the cues of the file are
\* numbered 1, 2, 3, ... in order.
C30_SrtCues ==
    SrtWritten =>
      /\ Len(Cues) = CuesBefore(Len(merged_chunks) + 1)
      /\ \A p \in 1..Len(Cues) : Cues[p].idx = p
      /\ \A k \in 1..Len(merged_chunks) :
            LET n == SpansOf(k)
                at(j) == Cues[CuesBefore(k) + j]
            IN /\ ToMs(at(1).s) = ChunkT0(k)
               /\ ToMs(at(n).e) = ChunkT1(k)
               /\ \A j \in 1..n :
                     /\ ToMs(at(j).s) * n <= ChunkT0(k) * n + ChunkDur(k) * (j - 1)
                     /\ ChunkT0(k) * n + ChunkDur(k) * (j - 1) < (ToMs(at(j).s) + 1) * n
                     /\ ToMs(at(j).e) * n <= ChunkT0(k) * n + ChunkDur(k) * j
                     /\ ChunkT0(k) * n + ChunkDur(k) * j < (ToMs(at(j).e) + 1) * n
                     /\ j < n => at(j).e = at(j + 1).s

\* A file of two chunks: one of 25 seconds, cut in two spans (2.5 rounds to
\* 2), one of 35 seconds, cut in four (3.5 rounds to 4).
C30_Witness ==
    /\ SrtWritten
    /\ Len(merged_chunks) = 2
    /\ ChunkDur(1) = 25000 /\ SpansOf(1) = 2
    /\ ChunkDur(2) = 35000 /\ SpansOf(2) = 4
    /\ Len(Cues) = 6
    /\ Cues[3].idx = 3

\* ---------------------------------------------------------------- C26
\* The text the collaborator finally returned for chunk i in this run, the
\* empty text when its last response was an exception.
ResponseText(i) ==
    IF resps[i] # <<>> /\ resps[i][Len(resps[i])].kind = "text"
    THEN resps[i][Len(resps[i])].msg
    ELSE <<>>

\* the chunks up to n that have a text, in index order
RECURSIVE WithText(_)
WithText(n) ==
    IF n = 0 THEN <<>>
    ELSE IF ResponseText(n) = <<>> THEN WithText(n - 1)
         ELSE Append(WithText(n - 1), n)

\* the texts of the chunks ids, joined by single spaces
RECURSIVE SpaceJoined(_)
SpaceJoined(ids) ==
    IF ids = <<>> THEN <<>>
    ELSE IF Len(ids) = 1 THEN ResponseText(ids[1])
         ELSE SpaceJoined(SubSeq(ids, 1, Len(ids) - 1)) \o <<" ">>
              \o ResponseText(ids[Len(ids)])

\* C26: when stitch_outputs has returned in a run of main, the full text and
\* the merged chunks are determined by the responses of the chunks taken in
\* manifest index order, whatever the order in which the workers completed:
\* the stub texts of the chunks that have one, by ascending index.
C26_ManifestOrder ==
    (mpc # "off" /\ spc = "returned") =>
        /\ full_text = SpaceJoined(WithText(NumChunks))
        /\ Len(merged_chunks) = Len(WithText(NumChunks))
        /\ \A k \in 1..Len(merged_chunks) :
              /\ merged_chunks[k].index = WithText(NumChunks)[k] - 1
              /\ merged_chunks[k].text = ResponseText(WithText(NumChunks)[k])

\* a run whose last chunk completed first and whose chunks all have a text
C26_Witness ==
    /\ mpc = "exit0"
    /\ Len(order) = NumChunks
    /\ order[1] = NumChunks
    /\ order[Len(order)] = 1
    /\ WithText(NumChunks) = [k \in 1..NumChunks |-> k]
    /\ full_text = SpaceJoined([k \in 1..NumChunks |-> k])

\* ---------------------------------------------------------------- C29
\* C29: a run of main without the transcription credential ends with a
\* non-zero exit and has issued no audio-extraction call (ffmpeg) and no
\* transcription call for any chunk.
C29_NoChunkWorkWithoutCredential ==
    (mpc # "off" /\ ~credential) =>
        /\ mpc # "exit0"
        /\ ffmpeg_calls = <<>>
        /\ \A i \in Chunks : resps[i] = <<>>

\* ---------------------------------------------------------------- C28
\* the chunks whose work item ended in error in this run
Errored ==
    {i \in Chunks : /\ wpc[i] = "finished"
                    /\ resps[i] # <<>>
                    /\ resps[i][Len(resps[i])].kind = "raise"}

\* C28: a run of main in which a chunk ended in error is not failed because
\* of it, and when it has finished every enabled output file is written and
\* the errored chunks are absent from the merged chunks and the full text.
C28_ErroredRunSucceeds ==
    (mpc # "off" /\ Errored # {}) =>
        /\ mpc # "exit1"
        /\ mpc = "exit0" =>
              /\ outputs.write_txt => files.txt = <<full_text>>
              /\ outputs.write_json => files.json # <<>>
              /\ outputs.write_srt => files.srt # <<>>
              /\ outputs.write_vtt => files.vtt # <<>>
              /\ \A k \in 1..Len(merged_chunks) :
                    merged_chunks[k].index + 1 \notin Errored
              /\ full_text = SpaceJoined(WithText(NumChunks))

\* ---------------------------------------------------------------- C27
Hello012 ==
    <<"h", "e", "l", "l", "o", " ", "0", " ",
      "h", "e", "l", "l", "o", " ", "1", " ",
      "h", "e", "l", "l", "o", " ", "2">>

\* C27: for a duration of 125 s, a window of 60 s and an overlap of 5 s the
\* planner writes exactly three chunks, cut at 0-65, 55-125 and 115-125
\* seconds, and with the stub that returns "hello <index>" for each chunk the
\* stitched full text is "hello 0 hello 1 hello 2".
C27_EndToEnd ==
    (/\ meta.duration = 125 * TimeScale
     /\ chunking.max_chunk_secs = 60
     /\ chunking.overlap_secs = 5) =>
        /\ ppc = "done" =>
              /\ window = 60 * TimeScale
              /\ Len(disk) = 3
              /\ [k \in 1..3 |-> <<disk[k].index, disk[k].t_start, disk[k].t_end>>]
                 = << <<0, 0, 65 * TimeScale>>,
                      <<1, 55 * TimeScale, 125 * TimeScale>>,
                      <<2, 115 * TimeScale, 125 * TimeScale>> >>
        /\ spc = "returned" => full_text = Hello012

\* the scenario, stitched after the chunks were transcribed
C27_Witness ==
    /\ meta.duration = 125 * TimeScale
    /\ chunking.max_chunk_secs = 60
    /\ chunking.overlap_secs = 5
    /\ ppc = "done"
    /\ spc = "returned"
    /\ Len(merged_chunks) = 3
    /\ full_text = Hello012

\* ---------------------------------------------------------------- C31
\* the pieces of ps, one after the other
RECURSIVE Concat(_)
Concat(ps) == IF ps = <<>> THEN <<>> ELSE Head(ps) \o Concat(Tail(ps))

\* the pieces of merged chunk k are SpansOf(k) many and make up its text
PiecesPartition(k) ==
    /\ Len(srt_parts[k]) = SpansOf(k)
    /\ Concat(srt_parts[k]) = merged_chunks[k].text

\* C31: once transcript.srt is written, the text of every merged chunk was
\* split into exactly spans pieces that, one after the other, make up the
\* text, and the lengths of any two pieces of a chunk differ by at most one
\* character.
C31_SplitPartition ==
    SrtWritten =>
      \A k \in 1..Len(merged_chunks) :
         /\ PiecesPartition(k)
         /\ \A a, b \in 1..Len(srt_parts[k]) :
               Len(srt_parts[k][a]) - Len(srt_parts[k][b]) <= 1

\* ---------------------------------------------------------------- C32
\* write_side_outputs has run in this step
Wrote == mpc = "running" /\ mpc' = "exit0"

\* C32: a call of write_side_outputs renders each of the four transcript
\* files exactly when its own flag is enabled, whatever the other flags are:
\* an enabled file holds the rendering of this call's full text or merged
\* chunks afterwards, a disabled one is as it was before the call.
C32_FlagsIndependent ==
    [][Wrote =>
         /\ IF outputs.write_txt
            THEN files'.txt = <<full_text>>
            ELSE files'.txt = files.txt
         /\ IF outputs.write_json
            THEN /\ files'.json # <<>>
                 /\ files'.json[1].full_text = full_text
                 /\ files'.json[1].chunks = merged_chunks
            ELSE files'.json = files.json
         /\ IF outputs.write_srt
            THEN /\ files'.srt # <<>>
                 /\ files'.srt # OldFiles.srt
                 /\ Len(files'.srt[1]) >= Len(merged_chunks)
            ELSE files'.srt = files.srt
         /\ IF outputs.write_vtt
            THEN /\ files'.vtt # <<>>
                 /\ files'.vtt # OldFiles.vtt
                 /\ Len(files'.vtt[1]) = Len(merged_chunks)
                 /\ \A k \in 1..Len(merged_chunks) :
                       ToMs(files'.vtt[1][k].s) = ChunkT0(k)
            ELSE files'.vtt = files.vtt]_vars

\* A call with two flags on and two off, over files of an earlier call: the
\* disabled files are the old ones, the enabled ones are new.
C32_Witness ==
    /\ mpc = "exit0"
    /\ outputs = [write_txt |-> FALSE, write_json |-> TRUE,
                  write_srt |-> TRUE, write_vtt |-> FALSE]
    /\ Len(merged_chunks) = MaxCueChunks
    /\ files.txt = OldFiles.txt
    /\ files.vtt = OldFiles.vtt
    /\ files.json # OldFiles.json
    /\ files.srt # OldFiles.srt

\* ---------------------------------------------------------------- C33
\* chunk i got a text from its call number k + 1, after k calls that all
\* raised a transient-marked error
SucceededAfter(i, k) ==
    /\ Len(resps[i]) = k + 1
    /\ resps[i][k + 1].kind = "text"
    /\ \A n \in 1..k : TransientRaise(resps[i][n])

\* C33: a response with a text is the last response of its chunk; a chunk
\* whose first k calls raised transient-marked errors and whose next call
\* returned a text has k <= max_retries, was called exactly k + 1 times and
\* put to sleep exactly k times, the n-th time (from 0) for
\* backoff_base_ms * 2^n ms, has left the retry loop for good, and its record
\* has the text of that call and is done once its worker has finished.
C33_RetryThenSuccess ==
    \A i \in Chunks :
       /\ \A n \in 1..Len(resps[i]) : resps[i][n].kind = "text" => n = Len(resps[i])
       /\ \A k \in 0..Len(resps[i]) :
             SucceededAfter(i, k)
             => /\ k <= max_retries
                /\ Calls(i) = k + 1
                /\ Len(sleeps[i]) = k
                /\ \A n \in 0..(k - 1) : sleeps[i][n + 1] = backoff_base_ms * (2 ^ n)
                /\ wpc[i] \in {"set_latency", "set_done", "finished"}
                /\ manifest[i].text = resps[i][k + 1].msg
                /\ (wpc[i] = "finished" => manifest[i].status = "done")

\* a chunk succeeded on its third call, after two backoff sleeps, with retry
\* budget left, and its worker has finished
C33_Witness ==
    \E i \in Chunks :
       /\ SucceededAfter(i, 2)
       /\ max_retries > 2
       /\ Len(sleeps[i]) = 2
       /\ wpc[i] = "finished"
       /\ manifest[i].status = "done"

\* ---------------------------------------------------------------- C34
\* C34: the retries field is 0 in every record of the manifest file, of the
\* manifest in memory and of a content being written, whatever number of
\* retries a chunk needed; the attempt count of a chunk counts the backoff
\* sleeps of the current run only, and a run that starts gives every pending
\* record a work item at attempt 0 with no call and no sleep behind it.
C34_RetriesNotPersisted ==
    /\ [](/\ \A i \in 1..Len(disk) : disk[i].retries = 0
          /\ \A i \in 1..Len(manifest) : manifest[i].retries = 0
          /\ (pc \in {"trunc", "write"} =>
                \A i \in 1..Len(content) : content[i].retries = 0)
          /\ \A i \in Chunks :
                attempt[i] = Len(sleeps[i]) - (IF wpc[i] = "sleep" THEN 1 ELSE 0))
    /\ [][(pc \notin Running /\ pc' \in Running) =>
            \A i \in Chunks :
               disk[i].status = "pending"
               => /\ wpc'[i] = "queued"
                  /\ attempt'[i] = 0
                  /\ resps'[i] = <<>>
                  /\ sleeps'[i] = <<>>]_vars

\* a run has returned and saved a chunk that needed two retries; its record
\* in the file is done with retries 0
C34_Witness ==
    \E i \in Chunks :
       /\ pc = "returned"
       /\ attempt[i] = 2
       /\ Len(sleeps[i]) = 2
       /\ disk # <<>>
       /\ disk[i].status = "done"
       /\ disk[i].retries = 0

\* ---------------------------------------------------------------- C35
\* a stage of main has raised
StageRaised == ppc = "raised" \/ pc = "raised" \/ spc = "raised"

\* C35: in a run of main the planner starts only after the probe returned,
\* transcription only after the planner returned, stitching only after
\* transcription returned, and files are written only after stitching
\* returned; once a stage has raised no later stage has started or starts,
\* no file is written and the exit is not 0, and an exit of 1 follows only a
\* stage that raised; transcription starts from the content of the manifest
\* file and stitching from its records, and only the planner and the
\* scheduler write the file.
C35_StageOrder ==
    /\ [](mpc # "off" =>
            /\ (mpc = "probe" => ppc = "off")
            /\ (ppc = "off" => pc = "idle")
            /\ (pc # "idle" => ppc = "done")
            /\ (spc # "off" => pc = "returned")
            /\ (files # NoFiles \/ mpc = "exit0" => spc = "returned")
            /\ (ppc = "raised" => pc = "idle" /\ spc = "off")
            /\ (pc = "raised" => spc = "off")
            /\ (StageRaised => files = NoFiles /\ mpc # "exit0")
            /\ (mpc = "exit1" => StageRaised \/ ppc = "off"))
    /\ [][mpc # "off" =>
            /\ (pc = "idle" /\ pc' \in Running =>
                  manifest_content' = disk /\ manifest' = disk)
            /\ (spc = "off" /\ spc' # "off" =>
                  /\ Len(loaded') = Len(disk)
                  /\ \A k \in 1..Len(disk) :
                        /\ loaded'[k].index = disk[k].index
                        /\ loaded'[k].t_start = disk[k].t_start
                        /\ loaded'[k].t_end = disk[k].t_end
                        /\ loaded'[k].text = disk[k].text)
            /\ (disk' # disk => ppc = "segment" \/ pc \in {"trunc", "write"})
            /\ (mpc \in {"exit0", "exit1"} => UNCHANGED vars)]_vars

\* a run that went through every stage and wrote its files
C35_Witness ==
    /\ mpc = "exit0"
    /\ ppc = "done"
    /\ pc = "returned"
    /\ spc = "returned"
    /\ Len(ffmpeg_calls) = NumChunks
    /\ Len(merged_chunks) = NumChunks
    /\ files.txt = <<full_text>>

\* ---------------------------------------------------------------- C36
\* Record r of chunk i is as the run loaded it, or done with the text and a
\* latency of the call that returned, or in error with the message of the
\* call that raised for good.
ConsistentRecord(i, r) ==
    \/ r = manifest_content[i]
    \/ /\ r.status = "done"
       /\ resps[i] # <<>> /\ Last(resps[i]).kind # "raise"
       /\ r.text = Last(resps[i]).msg
       /\ r.latency_ms # None
       /\ r.error = None
    \/ /\ r.status = "error"
       /\ resps[i] # <<>> /\ Last(resps[i]).kind = "raise"
       /\ r.error = Some(Last(resps[i]).msg)
       /\ r.text = manifest_content[i].text
       /\ r.latency_ms = manifest_content[i].latency_ms

\* C36: every content a run writes to the manifest file, and the file after
\* the write, shows each record in a consistent state, never one that a
\* worker has only partly updated.
C36_SnapshotsConsistent ==
    Loaded =>
      /\ (pc \in {"trunc", "write"} =>
            \A i \in Chunks : ConsistentRecord(i, content[i]))
      /\ (disk # <<>> => \A i \in Chunks : ConsistentRecord(i, disk[i]))

\* ---------------------------------------------------------------- C37
\* C37: a save that has begun goes on to write the manifest whatever the
\* workers do meanwhile: json.dumps never ends by raising, and a run that has
\* loaded its manifest never ends by raising.
C37_SaveCompletes ==
    /\ [][pc = "dumps" => pc' # "raising"]_vars
    /\ [](Loaded => pc \notin {"raising", "raised"})

\* ---------------------------------------------------------------- C38
\* C38: stitch_outputs raises for no manifest: neither the loop nor a call of
\* _dedup_join inside it ends by raising.
C38_StitchNeverRaises == spc # "raised"

\* ---------------------------------------------------------------- C39
\* a is a prefix of b
IsPrefix(a, b) == Len(a) <= Len(b) /\ SubSeq(b, 1, Len(a)) = a

\* a call of _dedup_join made by the loop returns in this step
Joined ==
    /\ spc = "loop"
    /\ si > 0
    /\ si < Len(loaded)
    /\ si' = si + 1
    /\ loaded[si + 1].text # <<>>

\* C39 as stated: after every join step the accumulated text of before,
\* trimmed, is a prefix of the new accumulated text.
C39_AccumulatedOnlyGrows ==
    [][Joined => IsPrefix(Strip(merged_text), merged_text')]_vars

\* C39 as amended: after every join step the accumulated text of before,
\* normalized again and trimmed, is a prefix of the new accumulated text, in
\* the deduplicating branch and in the fallback branch.
C39_NormalizedPrefixGrows ==
    [][Joined => IsPrefix(Strip(NormalizeText(merged_text)), merged_text')]_vars

\* a deduplicating join and, before it, a fallback join whose result has a
\* blank at the end of a line, which the next join removes
C39_Witness ==
    /\ spc = "loop"
    /\ si = 3
    /\ jpc = "returned"
    /\ match.tag = "equal" /\ match.i2 - match.i1 >= MinMatch
    /\ NormalizeText(prev) # prev
    /\ IsPrefix(NormalizeText(prev), merged_text)
    /\ Len(merged_text) > Len(NormalizeText(prev))

====
